---- MODULE Spec2Model ----
(***************************************************************************)
(* State-machine model of the Apex-Predator trading core:                  *)
(*   - the accumulation engine (core/gabagool.py),                         *)
(*   - the order queue (core/order_queue.py),                              *)
(*   - the fill manager (core/fill_manager.py),                            *)
(*   - the executor (core/executor.py),                                    *)
(*   - the auto-optimizer's parameter write (core/auto_optimizer.py).      *)
(*                                                                         *)
(* Units.  Prices are integers in thousandths of a dollar per share        *)
(* (0.48 -> 480); quantities are whole shares; costs are thousandths of a  *)
(* dollar (qty * price).  Average prices and pair costs are rationals and  *)
(* are never rounded: they are carried as <<numerator, denominator>> and   *)
(* compared exactly.  A quantity obtained from usd / price is truncated to *)
(* whole shares.                                                           *)
(***************************************************************************)
EXTENDS Integers, Sequences, FiniteSets, TLC

(***************************************************************************)
(* Bounds of the model                                                     *)
(***************************************************************************)
MaxOrders == 3          \* QueuedOrder objects created in one behaviour
MaxNow == 21            \* last minute the clock reaches
MaxTrades == 3          \* trades recorded by the daily loss manager in one day
MaxFailures == 6        \* failed orders the queue reports to the executor
MaxQueueOrders == 4     \* QueuedOrder objects handed to a queue of one priority
MaxCalls == 10          \* calls made through the circuit breaker
MaxBreakerNow == 90     \* last second the circuit breaker's clock reaches
MaxCapitalOps == 4      \* allocate and release calls on the capital manager
MaxLevels == 2          \* price levels a local book keeps on each side
MaxAcquires == 3        \* acquire calls made on the rate limiter
MaxSuccesses == 10      \* on_success calls made on the rate limiter

(***************************************************************************)
(* Program constants                                                       *)
(***************************************************************************)
order_size_usd == 25            \* GabagoolConfig.order_size_usd
kill_switch_minutes == 20       \* GabagoolConfig.kill_switch_minutes
balance_ratio_num == 3          \* GabagoolConfig.balance_ratio_threshold = 1.5
balance_ratio_den == 2          \*   carried as the fraction 3/2
reconcile_threshold == 2        \* _reconcile_positions: threshold (shares)
max_concurrent == 3             \* OrderQueue(max_concurrent=3)
max_retries == 2                \* OrderQueue(max_retries=2)
dedup_window == 200             \* deque(maxlen=200) of recent order keys
apply_threshold_pct == 1        \* _apply_gabagool_params: THRESHOLD = 0.01
capital_per_trade == 25         \* TradingParams.capital_per_trade (dollars)
max_open_positions == 15        \* TradingParams.max_open_positions
max_total_exposure == 1000      \* TradingParams.max_total_exposure (dollars)
max_pair_cost_slippage_check == 980   \* TradingParams.max_pair_cost_slippage_check
max_daily_loss_usd == 100       \* DailyLossManager(max_daily_loss_usd=100.0)
max_daily_loss_percent == 10    \* DailyLossManager(max_daily_loss_percent=10.0)
total_capital == 1000           \* DailyLossManager(total_capital=1000.0)
warning_threshold_pct == 70     \* DailyLossManager(warning_threshold=0.7)
reduction_threshold_pct == 50   \* DailyLossManager(reduction_threshold=0.5)
failure_threshold == 5          \* CircuitBreakerConfig.failure_threshold
success_threshold == 2          \* CircuitBreakerConfig.success_threshold
timeout_seconds == 30           \* CircuitBreakerConfig.timeout_seconds
half_open_max_calls == 3        \* CircuitBreakerConfig.half_open_max_calls
starting_capital == 1000        \* PaperConfig.starting_capital (dollars)
gabagool_capital_pct == 60      \* PaperConfig.gabagool_capital_pct
smart_ape_capital_pct == 40     \* PaperConfig.smart_ape_capital_pct

(***************************************************************************)
(* Input domains                                                           *)
(***************************************************************************)
Markets == {"m1"}
Legs == {"YES", "NO"}
\* best asks <<price_yes, price_no>> a snapshot may carry
SnapshotPrices == {<<480, 490>>, <<470, 490>>}
\* average price the exchange reports for a market (non-limit) order
MarketFillPrices == {480}
\* filter inputs of a snapshot: <<oracle signal, obi_yes > 0.3, obi_no > 0.3, RSI zone>>;
\* "NEUTRAL" also stands for no oracle or no asset named in the question, and
\* "neutral" for an RSI in [rsi_oversold, rsi_overbought] or not yet defined
FilterInputs ==
    {<<"NEUTRAL", FALSE, FALSE, "neutral">>,
     <<"BUY", FALSE, FALSE, "neutral">>,
     <<"SELL", FALSE, FALSE, "neutral">>,
     <<"NEUTRAL", TRUE, FALSE, "neutral">>,
     <<"NEUTRAL", FALSE, TRUE, "neutral">>,
     <<"NEUTRAL", FALSE, FALSE, "overbought">>,
     <<"NEUTRAL", FALSE, FALSE, "oversold">>}
\* configurations the engine may be constructed with
InitMaxPairCost == {975}
\* targets the optimizer may compute (thousandths)
OptimizerTargets ==
    {[max_pair_cost |-> 960, min_improvement |-> 2],
     [max_pair_cost |-> 985, min_improvement |-> 0]}
ClockSteps == {20, 21}
\* arguments of the capital manager's calls (dollars)
Strategies == {"gabagool", "smart_ape"}
CapitalMarkets == {"m1", "m2"}
AllocAmounts == {300, 400}
\* <<pnl, fees, slippage>> of a release
ReleaseArgs == {<<20, 1, 0>>, <<0, 0, 0>>, <<-400, 0, 2>>}
\* seconds between two events at the circuit breaker
BreakerSteps == {10, 30}

Min(a, b) == IF a < b THEN a ELSE b
Max(a, b) == IF a > b THEN a ELSE b
Abs(a) == IF a < 0 THEN 0 - a ELSE a

(***************************************************************************)
(* Exact comparison of non-negative rationals a/b < c/d (b, d > 0) by the  *)
(* Euclidean expansion, so that no product is formed.                      *)
(***************************************************************************)
RECURSIVE FracLess(_, _, _, _)
FracLess(a, b, c, d) ==
    LET qa == a \div b
        qc == c \div d
        ra == a % b
        rc == c % d
    IN  IF qa # qc THEN qa < qc
        ELSE IF rc = 0 THEN FALSE
        ELSE IF ra = 0 THEN TRUE
        ELSE FracLess(d, rc, b, ra)

\* fractions are <<numerator, denominator>> in thousandths of a dollar per share
Lt(x, y) == FracLess(x[1], x[2], y[1], y[2])
Plus(x, y) == <<x[1] * y[2] + y[1] * x[2], x[2] * y[2]>>

(***************************************************************************)
(* GabagoolPosition                                                        *)
(***************************************************************************)
NewPosition(created) ==
    [qty_yes |-> 0, cost_yes |-> 0, qty_no |-> 0, cost_no |-> 0,
     pending_qty_yes |-> 0, pending_cost_yes |-> 0,
     pending_qty_no |-> 0, pending_cost_no |-> 0,
     is_locked |-> FALSE, created_at |-> created]

avg_price_yes(p) == IF p.qty_yes > 0 THEN <<p.cost_yes, p.qty_yes>> ELSE <<0, 1>>
avg_price_no(p) == IF p.qty_no > 0 THEN <<p.cost_no, p.qty_no>> ELSE <<0, 1>>

pair_cost(p) ==
    IF p.qty_yes > 0 /\ p.qty_no > 0
    THEN Plus(avg_price_yes(p), avg_price_no(p))
    ELSE <<2000, 1>>

total_cost(p) == p.cost_yes + p.cost_no
hedged_qty(p) == Min(p.qty_yes, p.qty_no)

\* hedged_qty (shares) > total_cost (dollars), both brought to thousandths
LockCondition(p, max_pair_cost) ==
    /\ Lt(pair_cost(p), <<max_pair_cost, 1>>)
    /\ hedged_qty(p) * 1000 > total_cost(p)

\* variant: the flag follows the condition instead of latching
check_and_lock_follow(p, max_pair_cost) ==
    [p EXCEPT !.is_locked = LockCondition(p, max_pair_cost)]

check_and_lock(p, max_pair_cost) ==
    IF LockCondition(p, max_pair_cost) THEN [p EXCEPT !.is_locked = TRUE] ELSE p

(***************************************************************************)
(* Persistence of the positions: to_dict / from_dict, the JSON file        *)
(***************************************************************************)
PositionFields == DOMAIN NewPosition(0)
\* datetime.isoformat and datetime.fromisoformat, on the clock's minutes
isoformat(t) == <<"iso", t>>
fromisoformat(str) == str[2]

\* GabagoolPosition.to_dict: asdict, the timestamp as text, and the two
\* totals that the dashboard reads
to_dict(p) ==
    [f \in PositionFields \cup {"total_qty_yes", "total_qty_no"} |->
        IF f = "created_at" THEN isoformat(p.created_at)
        ELSE IF f = "total_qty_yes" THEN p.qty_yes + p.pending_qty_yes
        ELSE IF f = "total_qty_no" THEN p.qty_no + p.pending_qty_no
        ELSE p[f]]

\* cls(**data) raises TypeError on a keyword that is not a field
from_dict_raises(data) == ~(DOMAIN data \subseteq PositionFields)
from_dict(data) ==
    [f \in PositionFields |->
        IF f = "created_at" THEN fromisoformat(data[f]) ELSE data[f]]

NoFile == [exists |-> FALSE, data |-> <<>>]
_save_positions(ps) == [exists |-> TRUE, data |-> [m \in DOMAIN ps |-> to_dict(ps[m])]]
\* a file that does not exist leaves the positions as they are; a TypeError
\* on any entry leaves the engine with no position
_load_positions(file, current) ==
    IF ~file.exists THEN current
    ELSE IF \E m \in DOMAIN file.data : from_dict_raises(file.data[m]) THEN <<>>
    ELSE [m \in DOMAIN file.data |-> from_dict(file.data[m])]

(***************************************************************************)
(* GabagoolEngine callbacks, as functions of the position                  *)
(***************************************************************************)
\* variant: the pending quantity is decremented without the max(0, ...) clamp
OnFill_unclamped(p, side, filled_qty, price, max_pair_cost) ==
    LET cost == filled_qty * price
        q == IF side = "YES"
             THEN [p EXCEPT !.qty_yes = @ + filled_qty,
                            !.cost_yes = @ + cost,
                            !.pending_qty_yes = @ - filled_qty]
             ELSE [p EXCEPT !.qty_no = @ + filled_qty,
                            !.cost_no = @ + cost,
                            !.pending_qty_no = @ - filled_qty]
    IN  check_and_lock(q, max_pair_cost)

\* _on_fill_callback: any side other than "YES" takes the else branch
OnFill(p, side, filled_qty, price, max_pair_cost) ==
    LET cost == filled_qty * price
        q == IF side = "YES"
             THEN [p EXCEPT !.qty_yes = @ + filled_qty,
                            !.cost_yes = @ + cost,
                            !.pending_qty_yes = Max(0, @ - filled_qty)]
             ELSE [p EXCEPT !.qty_no = @ + filled_qty,
                            !.cost_no = @ + cost,
                            !.pending_qty_no = Max(0, @ - filled_qty)]
    IN  check_and_lock(q, max_pair_cost)

\* _on_order_end_callback
OnOrderEnd(p, side, remaining_qty) ==
    IF side = "YES"
    THEN [p EXCEPT !.pending_qty_yes = Max(0, @ - remaining_qty)]
    ELSE [p EXCEPT !.pending_qty_no = Max(0, @ - remaining_qty)]

\* place_order, step 1: the optimistic update of the pending fields
AddPending(p, side, qty, price) ==
    IF side = "YES"
    THEN [p EXCEPT !.pending_qty_yes = @ + qty, !.pending_cost_yes = @ + qty * price]
    ELSE [p EXCEPT !.pending_qty_no = @ + qty, !.pending_cost_no = @ + qty * price]

(***************************************************************************)
(* analyze_opportunity: the decision for an existing, unlocked position    *)
(***************************************************************************)
\* shares bought with size_usd dollars at price (thousandths)
SharesFor(size_usd, price) == (size_usd * 1000) \div price

potential_pair_cost_if_buy_yes(p, price_yes, size_usd) ==
    LET d == SharesFor(size_usd, price_yes)
        new_avg_yes == <<p.cost_yes + d * price_yes, p.qty_yes + d>>
    IN  IF p.qty_no > 0 THEN Plus(new_avg_yes, avg_price_no(p)) ELSE <<2000, 1>>

potential_pair_cost_if_buy_no(p, price_no, size_usd) ==
    LET d == SharesFor(size_usd, price_no)
        new_avg_no == <<p.cost_no + d * price_no, p.qty_no + d>>
    IN  IF p.qty_yes > 0 THEN Plus(avg_price_yes(p), new_avg_no) ELSE <<2000, 1>>

\* improvement = current - potential > threshold, as potential + threshold < current
ImprovesBy(current, potential, threshold) ==
    Lt(<<potential[1] + threshold * potential[2], potential[2]>>, current)

\* the candidates after step 3 (lines 404-412)
CostCandidate(p, potential, cfg) ==
    /\ ImprovesBy(pair_cost(p), potential, cfg.min_improvement)
    /\ Lt(potential, <<cfg.max_pair_cost, 1>>)

\* filters of lines 414-457: oracle, OBI, RSI
buy_yes_candidate(p, py, size_usd, cfg, signal, obi_yes_high, obi_no_high, rsi) ==
    LET c0 == CostCandidate(p, potential_pair_cost_if_buy_yes(p, py, size_usd), cfg)
        c1 == IF signal = "BUY" THEN TRUE ELSE IF signal = "SELL" THEN FALSE ELSE c0
        c2 == IF obi_no_high THEN FALSE ELSE c1
    IN  IF rsi = "oversold" THEN FALSE ELSE c2

buy_no_candidate(p, pn, size_usd, cfg, signal, obi_yes_high, obi_no_high, rsi) ==
    LET c0 == CostCandidate(p, potential_pair_cost_if_buy_no(p, pn, size_usd), cfg)
        c1 == IF signal = "BUY" THEN FALSE ELSE IF signal = "SELL" THEN TRUE ELSE c0
        c2 == IF obi_yes_high THEN FALSE ELSE c1
    IN  IF rsi = "overbought" THEN FALSE ELSE c2

\* ratio = (qty_yes + 1) / (qty_no + 1) against balance_ratio_threshold
RatioAbove(p) == (p.qty_yes + 1) * balance_ratio_den > balance_ratio_num * (p.qty_no + 1)
RatioBelow(p) == (p.qty_yes + 1) * balance_ratio_den < balance_ratio_num * (p.qty_no + 1)
InvRatioAbove(p) == (p.qty_no + 1) * balance_ratio_den > balance_ratio_num * (p.qty_yes + 1)
InvRatioBelow(p) == (p.qty_no + 1) * balance_ratio_den < balance_ratio_num * (p.qty_yes + 1)

Decide(p, py, pn, size_usd, cfg, signal, obi_yes_high, obi_no_high, rsi) ==
    LET yes == buy_yes_candidate(p, py, size_usd, cfg, signal, obi_yes_high, obi_no_high, rsi)
        no == buy_no_candidate(p, pn, size_usd, cfg, signal, obi_yes_high, obi_no_high, rsi)
        pot_yes == potential_pair_cost_if_buy_yes(p, py, size_usd)
        pot_no == potential_pair_cost_if_buy_no(p, pn, size_usd)
    IN  IF yes /\ no
        THEN IF RatioAbove(p) THEN "buy_no"
             ELSE IF InvRatioAbove(p) THEN "buy_yes"
             \* improvement_yes > improvement_no  <=>  pot_yes < pot_no
             ELSE IF Lt(pot_yes, pot_no) THEN "buy_yes" ELSE "buy_no"
        ELSE IF yes
        THEN IF RatioBelow(p) THEN "buy_yes" ELSE "none"
        ELSE IF no
        THEN IF InvRatioBelow(p) THEN "buy_no" ELSE "none"
        ELSE "none"

(***************************************************************************)
(* State                                                                   *)
(***************************************************************************)
VARIABLES
    \* GabagoolEngine
    positions,          \* self.positions: market_id -> GabagoolPosition
    config,             \* self.config: max_pair_cost, min_improvement
    decision,           \* per market, the result of the last analyze_opportunity
                        \*   that its caller has not acted on yet
    now,                \* the clock, in minutes
    \* OrderQueue
    orders,             \* self._orders: id -> QueuedOrder
    urgent_queue, high_queue, normal_queue,
    recent_order_keys,  \* self._recent_order_keys
    task,               \* id -> position of the _process_order task of that id
    processing_count,   \* self._processing_count
    next_id,            \* the next fresh QueuedOrder id
    enqueue_returned,   \* the last direct enqueue call: the id it returned, the
                        \*   key of its order, whether the key was a duplicate
    submits,            \* id -> number of calls made to the exchange client
    \* FillManager
    tracked_orders,     \* self._tracked_orders: exchange order id -> TrackedOrder
    order_ends,         \* observation, per order: the on_order_end invocations,
                        \*   whether each passed initial_qty - sizeMatched, the
                        \*   callbacks invoked after the first of them
    \* OrderExecutor
    exec_state, trades_today, successful_trades, failed_trades,
    consecutive_failures, last_trade_time, auto_resume_tasks,
    \* observation of the executor's bilateral path
    bilateral,          \* the last _place_bilateral_orders call: what the exchange
                        \*   client answered, what was cancelled, what was returned
    last_exec,          \* the last execute_opportunity call: whether every
                        \*   condition held at the call, which legs were submitted
    \* DailyLossManager (dollars)
    current_pnl, unrealized_pnl, trades_count,
    loss_status,        \* self._status
    loss_capital,       \* self.total_capital
    \* persistence of the engine
    is_running,         \* GabagoolEngine._is_running
    positions_file,     \* content of the positions file (NoFile before the first save)
    \* CircuitBreaker
    breaker,            \* _state, _failure_count, _success_count,
                        \*   _last_failure_time (-1 for None), _half_open_calls
    breaker_now,        \* the breaker's clock, in seconds
    in_flight,          \* admitted calls whose wrapped function has not returned:
                        \*   probe - admitted in the current half_open period,
                        \*   old - admitted before it
    breaker_obs,        \* observation: when the breaker last opened, successes
                        \*   recorded since it last became half_open, number of
                        \*   calls made, whether the last call was admitted
    \* PaperCapitalManager (strategy_mode "both"; no unrealized P&L is reported)
    pools,              \* strategy -> balance, allocated (market_id -> amount),
                        \*   realized_pnl, fees, slippage, trades_count
    legacy,             \* the global fields _balance, _allocated, _realized_pnl,
                        \*   _total_fees_paid, _total_slippage_cost, _trades_count
    capital_ops,        \* allocate and release calls made so far
    \* OrderQueue
    queue_running,      \* self._running: the processor loop has not been stopped
    \* LocalOrderbook of one token
    book,               \* _bids and _asks: price -> size
    book_obs,           \* observation: the last operation applied to the book
    \* AutoOptimizer
    optimizer,          \* _conditions and _gabagool_params (thousandths)
    \* AdaptiveRateLimiter (the global limiter of the exchange client)
    limiter,            \* _tokens (hundredths of a token), tokens_per_second
                        \*   (tenths), _consecutive_successes; sleeping: the
                        \*   acquire call that holds the lock in asyncio.sleep
                        \*   (tokens asked, deficit, rate the wait was computed
                        \*   with); the acquire and on_success calls made
    \* OrderExecutor and SmartApeEngine
    on_fill,            \* the engine whose callbacks executor.on_fill and
                        \*   executor.on_order_end hold ("none" for None)
    smart_ape_running   \* SmartApeEngine._is_running

engineVars == <<positions, config, decision, now>>
queueVars == <<orders, urgent_queue, high_queue, normal_queue, recent_order_keys,
               task, processing_count, next_id, enqueue_returned, submits>>
fillVars == <<tracked_orders, order_ends>>
execVars == <<exec_state, trades_today, successful_trades, failed_trades,
              consecutive_failures, last_trade_time, auto_resume_tasks,
              bilateral, last_exec>>
lossVars == <<current_pnl, unrealized_pnl, trades_count, loss_status, loss_capital>>
persistVars == <<is_running, positions_file>>
breakerVars == <<breaker, breaker_now, in_flight, breaker_obs>>
capitalVars == <<pools, legacy, capital_ops>>
callbackVars == <<on_fill, smart_ape_running>>
otherVars == <<book, book_obs, optimizer, limiter, callbackVars>>
auxVars == <<persistVars, breakerVars, capitalVars, queue_running, otherVars>>
vars == <<engineVars, queueVars, fillVars, execVars, lossVars, auxVars>>

OrderIds == 1..Max(MaxOrders, MaxQueueOrders)
NoEnqueue == [returned |-> 0, key |-> <<>>, duplicate |-> FALSE]
NoDecision == [action |-> "none", price |-> 0, size_usd |-> 0]
max_consecutive_failures == 5   \* OrderExecutor._max_consecutive_failures
\* get_polymarket_rate_limiter: rates in tenths of a token per second
tokens_per_second == 80
max_tokens == 15
min_rate == 20
max_rate == 120
recovery_threshold == 10        \* AdaptiveRateLimiter._recovery_threshold

NoBilateral == [outcome_yes |-> "none", outcome_no |-> "none", cancelled |-> {},
                success |-> FALSE, order_yes_id |-> FALSE, order_no_id |-> FALSE]
NoExec == [called |-> FALSE, eligible |-> FALSE, submitted |-> {}, success |-> FALSE]

Range(f) == {f[x] : x \in DOMAIN f}
token_id(m, leg) == <<m, leg>>

\* PaperCapitalManager.__init__
StartingShare(s) ==
    IF s = "gabagool" THEN (starting_capital * gabagool_capital_pct) \div 100
    ELSE (starting_capital * smart_ape_capital_pct) \div 100
NewPool(start) ==
    [balance |-> start, allocated |-> <<>>, realized_pnl |-> 0, fees |-> 0,
     slippage |-> 0, trades_count |-> 0]

\* CircuitBreaker.__init__
NewBreaker == [state |-> "closed", failure_count |-> 0, success_count |-> 0,
               last_failure_time |-> -1, half_open_calls |-> 0]

(***************************************************************************)
(* Init: the engine and the executor have been started, nothing is held    *)
(***************************************************************************)
Init ==
    /\ positions = <<>>
    /\ config \in [max_pair_cost : InitMaxPairCost, min_improvement : {0}]
    /\ decision = [m \in Markets |-> NoDecision]
    /\ now = 0
    /\ orders = <<>>
    /\ urgent_queue = <<>>
    /\ high_queue = <<>>
    /\ normal_queue = <<>>
    /\ recent_order_keys = <<>>
    /\ task = [i \in OrderIds |-> "none"]
    /\ processing_count = 0
    /\ next_id = 1
    /\ enqueue_returned = NoEnqueue
    /\ submits = [i \in OrderIds |-> 0]
    /\ tracked_orders = <<>>
    /\ order_ends = [i \in OrderIds |-> [count |-> 0, exact |-> TRUE, late |-> 0]]
    /\ exec_state = "ready"
    /\ trades_today = 0
    /\ bilateral = NoBilateral
    /\ last_exec = NoExec
    /\ successful_trades = 0
    /\ failed_trades = 0
    /\ consecutive_failures = 0
    /\ last_trade_time = -1
    /\ auto_resume_tasks = 0
    /\ current_pnl = 0
    /\ unrealized_pnl = 0
    /\ trades_count = 0
    /\ loss_status = "normal"
    /\ loss_capital = total_capital
    /\ is_running = TRUE
    /\ positions_file = NoFile
    /\ breaker = NewBreaker
    /\ breaker_now = 0
    /\ in_flight = [probe |-> 0, old |-> 0]
    /\ breaker_obs = [opened_at |-> -1, probe_successes |-> 0, calls |-> 0,
                      admitted |-> FALSE]
    /\ pools = [s \in Strategies |-> NewPool(StartingShare(s))]
    /\ legacy = NewPool(starting_capital)
    /\ capital_ops = 0
    /\ queue_running = TRUE
    /\ book = [bids |-> <<>>, asks |-> <<>>]
    /\ book_obs = "none"
    /\ optimizer = [conditions |-> [avg_spread |-> 100, volatility_score |-> 50,
                                    gabagool_active_positions |-> 0,
                                    gabagool_avg_pair_cost |-> 1000],
                    params |-> [max_pair_cost |-> 975, min_improvement |-> 5,
                                first_buy_threshold |-> 550]]
    /\ limiter = [tokens |-> max_tokens * 100, rate |-> tokens_per_second,
                  consecutive_successes |-> 0, sleeping |-> <<>>,
                  acquires |-> 0, successes |-> 0]
    /\ on_fill = "gabagool"
    /\ smart_ape_running = FALSE

(***************************************************************************)
(* OrderQueue.enqueue                                                      *)
(***************************************************************************)
_make_order_key(o) == <<o.token_id, o.side, o.price, o.size>>

IsDuplicate(o) == _make_order_key(o) \in Range(recent_order_keys)

\* deque(maxlen): appending to a full deque drops the oldest element
AppendBounded(q, x, maxlen) ==
    IF Len(q) >= maxlen THEN Append(Tail(q), x) ELSE Append(q, x)

\* the effect of enqueue(order) on the queue's tables; id is order.id
Enqueue(id, o) ==
    IF IsDuplicate(o)
    THEN UNCHANGED <<orders, urgent_queue, high_queue, normal_queue, recent_order_keys>>
    ELSE /\ recent_order_keys' = AppendBounded(recent_order_keys, _make_order_key(o), dedup_window)
         /\ orders' = (id :> o) @@ orders
         /\ urgent_queue' = IF o.priority = "URGENT" THEN Append(urgent_queue, id) ELSE urgent_queue
         /\ high_queue' = IF o.priority = "HIGH" THEN Append(high_queue, id) ELSE high_queue
         /\ normal_queue' = IF o.priority \notin {"URGENT", "HIGH"}
                            THEN Append(normal_queue, id) ELSE normal_queue

\* OrderExecutor.queue_order builds the QueuedOrder that is enqueued
QueuedOrder(tok, side, price, size, priority, order_type, market_id, meta_side) ==
    [token_id |-> tok, side |-> side, price |-> price, size |-> size,
     order_type |-> order_type, priority |-> priority, status |-> "pending",
     retries |-> 0, market_id |-> market_id, meta_side |-> meta_side]

(***************************************************************************)
(* GabagoolEngine.analyze_opportunity (one snapshot of market m)           *)
(***************************************************************************)
\* variant: the kill switch fires from the age kill_switch_minutes on
KillSwitchDue_inclusive(p, t) ==
    /\ ~p.is_locked
    /\ t - p.created_at >= kill_switch_minutes

\* the kill switch test of lines 333-335: not locked, age > kill_switch_minutes
KillSwitchDue(p, t) ==
    /\ ~p.is_locked
    /\ t - p.created_at > kill_switch_minutes

AnalyzeOpportunity(m, prices, signal, obi_yes_high, obi_no_high, rsi) ==
    LET price_yes == prices[1]
        price_no == prices[2]
        exists == m \in DOMAIN positions
        kill == exists /\ KillSwitchDue(positions[m], now)
        p == IF exists THEN positions[m] ELSE NewPosition(now)
        action == IF p.is_locked THEN "none"
                  ELSE Decide(p, price_yes, price_no, order_size_usd, config,
                              signal, obi_yes_high, obi_no_high, rsi)
    IN  /\ IF kill
           THEN \* _liquidate_position: the position is deleted, nothing is sold
                /\ positions' = [k \in DOMAIN positions \ {m} |-> positions[k]]
                /\ positions_file' = _save_positions(positions')
                /\ decision' = [decision EXCEPT ![m] = NoDecision]
           ELSE IF ~exists /\ ~(price_yes + price_no < config.max_pair_cost)
           THEN /\ UNCHANGED <<positions, positions_file>>
                /\ decision' = [decision EXCEPT ![m] = NoDecision]
           ELSE /\ positions' = (m :> p) @@ positions
                /\ UNCHANGED positions_file
                /\ decision' = [decision EXCEPT ![m] =
                       IF action = "none" THEN NoDecision
                       ELSE [action |-> action,
                             price |-> IF action = "buy_yes" THEN price_yes ELSE price_no,
                             size_usd |-> order_size_usd]]
        /\ UNCHANGED <<config, now, queueVars, fillVars, lossVars, is_running, breakerVars, capitalVars, queue_running, otherVars,
                       execVars>>

(***************************************************************************)
(* GabagoolEngine.place_order, with executor.queue_order and enqueue       *)
(***************************************************************************)
place_order(m, side, price, qty) ==
    IF m \notin DOMAIN positions \/ price <= 0
    THEN UNCHANGED <<positions, positions_file, queueVars>>
    ELSE LET q == IF qty <= 0 THEN SharesFor(order_size_usd, price) ELSE qty
             o == QueuedOrder(token_id(m, side), "BUY", price, q, "NORMAL", "GTC", m, side)
         IN  /\ positions' = [positions EXCEPT ![m] = AddPending(@, side, q, price)]
             /\ positions_file' = _save_positions(positions')
             /\ Enqueue(next_id, o)
             /\ next_id' = next_id + 1
             /\ UNCHANGED <<task, processing_count, enqueue_returned, submits>>

\* the caller acts on a buy decision: buy_yes / buy_no with quantity = usd / price
BuyDecision(m) ==
    LET d == decision[m]
        side == IF d.action = "buy_yes" THEN "YES" ELSE "NO"
    IN  /\ d.action # "none"
        /\ next_id <= MaxOrders
        /\ place_order(m, side, d.price, SharesFor(d.size_usd, d.price))
        /\ decision' = [decision EXCEPT ![m] = NoDecision]
        /\ UNCHANGED <<config, now, fillVars, lossVars, is_running, breakerVars, capitalVars, queue_running, otherVars,
                       execVars>>

(***************************************************************************)
(* GabagoolEngine._reconcile_positions, for one position of the tick       *)
(***************************************************************************)
ReconcilePosition(m) ==
    /\ m \in DOMAIN positions
    /\ next_id <= MaxOrders
    /\ LET pos == positions[m]
           balance == pos.qty_yes - pos.qty_no
           side_to_sell == IF balance > 0 THEN "YES" ELSE "NO"
           o == QueuedOrder(token_id(m, side_to_sell), "SELL", 0, Abs(balance),
                            "NORMAL", "MARKET", m, "UNKNOWN")
       IN  /\ ~(pos.pending_qty_yes > 0 \/ pos.pending_qty_no > 0)
           /\ Abs(balance) > reconcile_threshold
           /\ Enqueue(next_id, o)
    /\ next_id' = next_id + 1
    /\ UNCHANGED <<engineVars, task, processing_count, enqueue_returned, submits,
                   fillVars, lossVars, auxVars, execVars>>

(***************************************************************************)
(* AutoOptimizer._apply_gabagool_params                                    *)
(***************************************************************************)
RelativeChangeAbove(old, new) == Abs(old - new) * 100 > apply_threshold_pct * old

min_imp_changed(old, new) ==
    \/ old = 0 /\ new > 0
    \/ old > 0 /\ new = 0
    \/ old > 0 /\ RelativeChangeAbove(old, new)

_apply_gabagool_params(cfg, params) ==
    [max_pair_cost |-> IF RelativeChangeAbove(cfg.max_pair_cost, params.max_pair_cost)
                       THEN params.max_pair_cost ELSE cfg.max_pair_cost,
     min_improvement |-> IF min_imp_changed(cfg.min_improvement, params.min_improvement)
                         THEN params.min_improvement ELSE cfg.min_improvement]

ApplyGabagoolParams(params) ==
    /\ config' = _apply_gabagool_params(config, params)
    /\ config' # config
    /\ UNCHANGED <<positions, decision, now, queueVars, fillVars, lossVars, auxVars, execVars>>

AdvanceClock(d) ==
    /\ now + d <= MaxNow
    /\ now' = now + d
    /\ UNCHANGED <<positions, config, decision, queueVars, fillVars, lossVars, auxVars, execVars>>

(***************************************************************************)
(* OrderQueue processor                                                    *)
(***************************************************************************)
\* _get_next_order: urgent > high > normal
_get_next_order ==
    IF urgent_queue # <<>> THEN "URGENT"
    ELSE IF high_queue # <<>> THEN "HIGH"
    ELSE IF normal_queue # <<>> THEN "NORMAL"
    ELSE "empty"

\* _process_loop: pop the next order and create_task(_process_order)
ProcessLoopPop ==
    LET q == _get_next_order
        id == IF q = "URGENT" THEN Head(urgent_queue)
              ELSE IF q = "HIGH" THEN Head(high_queue)
              ELSE Head(normal_queue)
    IN  /\ queue_running
        /\ q # "empty"
        /\ task' = [task EXCEPT ![id] = "spawned"]
        /\ urgent_queue' = IF q = "URGENT" THEN Tail(urgent_queue) ELSE urgent_queue
        /\ high_queue' = IF q = "HIGH" THEN Tail(high_queue) ELSE high_queue
        /\ normal_queue' = IF q = "NORMAL" THEN Tail(normal_queue) ELSE normal_queue
        /\ UNCHANGED <<orders, recent_order_keys, processing_count, next_id,
                       enqueue_returned, submits, engineVars, fillVars, lossVars, auxVars, execVars>>

\* variant: a task gives its permit back as soon as its submission starts
PermitsHeld_free == Cardinality({i \in OrderIds : task[i] = "retry_sleep"})

\* tasks that hold a permit of self._semaphore
PermitsHeld == Cardinality({i \in OrderIds : task[i] \in {"executing", "retry_sleep"}})

\* variant: the order is processed whatever its status
ProcessOrderStart_unchecked(id) ==
    /\ task[id] = "spawned"
    /\ PermitsHeld < max_concurrent
    /\ IF id \notin DOMAIN orders
       THEN /\ task' = [task EXCEPT ![id] = "none"]
            /\ UNCHANGED <<orders, processing_count, submits>>
       ELSE /\ orders' = [orders EXCEPT ![id].status = "processing"]
            /\ processing_count' = processing_count + 1
            /\ submits' = [submits EXCEPT ![id] = @ + 1]
            /\ task' = [task EXCEPT ![id] = "executing"]
    /\ UNCHANGED <<urgent_queue, high_queue, normal_queue, recent_order_keys, next_id,
                   enqueue_returned, engineVars, fillVars, lossVars, auxVars, execVars>>

\* _process_order up to the call of the exchange client
ProcessOrderStart(id) ==
    /\ task[id] = "spawned"
    /\ PermitsHeld < max_concurrent
    /\ IF id \notin DOMAIN orders \/ orders[id].status # "pending"
       THEN /\ task' = [task EXCEPT ![id] = "none"]
            /\ UNCHANGED <<orders, processing_count, submits>>
       ELSE /\ orders' = [orders EXCEPT ![id].status = "processing"]
            /\ processing_count' = processing_count + 1
            /\ submits' = [submits EXCEPT ![id] = @ + 1]
            /\ task' = [task EXCEPT ![id] = "executing"]
    /\ UNCHANGED <<urgent_queue, high_queue, normal_queue, recent_order_keys, next_id,
                   enqueue_returned, engineVars, fillVars, lossVars, auxVars, execVars>>

\* OrderExecutor._handle_failure (called by _on_queue_order_failed)
ExecutorHandleFailure ==
    /\ failed_trades' = failed_trades + 1
    /\ consecutive_failures' = consecutive_failures + 1
    /\ IF consecutive_failures + 1 >= max_consecutive_failures
       THEN /\ exec_state' = IF exec_state = "ready" THEN "paused" ELSE exec_state
            /\ auto_resume_tasks' = auto_resume_tasks + 1
       ELSE UNCHANGED <<exec_state, auto_resume_tasks>>

\* the exchange client returns an answer without "error" that carries an
\* "orderID": completed, _on_queue_order_complete, fill manager tracking
SubmitSucceeds(id) ==
    /\ task[id] = "executing"
    /\ orders' = [orders EXCEPT ![id].status = "completed"]
    /\ successful_trades' = successful_trades + 1
    /\ last_trade_time' = now
    /\ tracked_orders' = (id :> [market_id |-> orders[id].market_id,
                                 side |-> orders[id].meta_side,
                                 initial_qty |-> orders[id].size,
                                 filled_qty |-> 0]) @@ tracked_orders
    /\ UNCHANGED order_ends
    /\ processing_count' = processing_count - 1
    /\ task' = [task EXCEPT ![id] = "none"]
    /\ UNCHANGED <<urgent_queue, high_queue, normal_queue, recent_order_keys, next_id,
                   enqueue_returned, submits, engineVars, exec_state, trades_today, failed_trades,
                   consecutive_failures, auto_resume_tasks, bilateral, last_exec,
                   lossVars, auxVars>>

\* the exchange client returns an error or raises: _handle_failure
SubmitFails(id) ==
    /\ task[id] = "executing"
    /\ IF orders[id].retries < max_retries
       THEN /\ orders' = [orders EXCEPT ![id].retries = @ + 1, ![id].status = "pending"]
            /\ task' = [task EXCEPT ![id] = "retry_sleep"]
            /\ UNCHANGED <<processing_count, execVars>>
       ELSE /\ orders' = [orders EXCEPT ![id].status = "failed"]
            /\ ExecutorHandleFailure
            /\ processing_count' = processing_count - 1
            /\ task' = [task EXCEPT ![id] = "none"]
            /\ UNCHANGED <<trades_today, successful_trades, last_trade_time,
                           bilateral, last_exec>>
    /\ UNCHANGED <<urgent_queue, high_queue, normal_queue, recent_order_keys, next_id,
                   enqueue_returned, submits, engineVars, fillVars, lossVars, auxVars>>

\* _handle_failure after the retry sleep: re-enqueue, then the finally block
RetryWake(id) ==
    /\ task[id] = "retry_sleep"
    /\ Enqueue(id, orders[id])
    /\ processing_count' = processing_count - 1
    /\ task' = [task EXCEPT ![id] = "none"]
    /\ UNCHANGED <<next_id, enqueue_returned, submits, engineVars, fillVars, lossVars, auxVars, execVars>>

\* OrderQueue.stop: the processor loop is cancelled; the tasks it created
\* are not
QueueStop ==
    /\ queue_running
    /\ queue_running' = FALSE
    /\ UNCHANGED <<engineVars, queueVars, fillVars, execVars, lossVars, persistVars,
                   breakerVars, capitalVars, otherVars>>

(***************************************************************************)
(* FillManager._poll_loop, for one tracked order                           *)
(***************************************************************************)
\* what get_order may report for a tracked order: <<sizeMatched, status>>
ExchangeReports(t) ==
    LET partial == {f \in {t.initial_qty \div 2} : f > t.filled_qty /\ f < t.initial_qty}
    IN  {<<f, "live">> : f \in partial}
        \cup {<<f, "canceled">> : f \in partial \cup {t.filled_qty}}
        \cup {<<t.initial_qty, "matched">>}

\* avgPrice reported by the exchange: the limit price, or a market price
ReportedPrices(oid) ==
    IF orders[oid].order_type = "MARKET" THEN MarketFillPrices ELSE {orders[oid].price}

\* the engine's callbacks, reached through the executor's forwarding
\* callbacks when executor.on_fill and executor.on_order_end hold them
PollEffect(p, t, new_filled, status, avg_price, max_pair_cost) ==
    LET delta_fill == new_filled - t.filled_qty
        p1 == IF delta_fill > 0
              THEN OnFill(p, t.side, delta_fill, avg_price, max_pair_cost) ELSE p
        ended == status \in {"matched", "canceled", "expired"} \/ new_filled >= t.initial_qty
        remaining == Max(0, t.initial_qty - new_filled)
    IN  IF ended THEN OnOrderEnd(p1, t.side, remaining) ELSE p1

\* del self._tracked_orders[order.order_id]
Untrack_kept(tracked, oid) == tracked
Untrack(tracked, oid) == [k \in DOMAIN tracked \ {oid} |-> tracked[k]]

_poll_order(oid, report, avg_price) ==
    LET t == tracked_orders[oid]
        new_filled == report[1]
        status == report[2]
        ended == status \in {"matched", "canceled", "expired"} \/ new_filled >= t.initial_qty
    IN  /\ positions' = IF t.market_id \in DOMAIN positions /\ on_fill = "gabagool"
                        THEN [positions EXCEPT ![t.market_id] =
                                 PollEffect(@, t, new_filled, status, avg_price,
                                            config.max_pair_cost)]
                        ELSE positions
        /\ positions_file' = IF t.market_id \in DOMAIN positions /\ on_fill = "gabagool"
                                /\ (new_filled - t.filled_qty > 0 \/ ended)
                             THEN _save_positions(positions')
                             ELSE positions_file
        /\ order_ends' =
               [order_ends EXCEPT ![oid] =
                   [count |-> IF ended THEN @.count + 1 ELSE @.count,
                    exact |-> IF ended
                              THEN @.exact /\ Max(0, t.initial_qty - new_filled)
                                                 = t.initial_qty - new_filled
                              ELSE @.exact,
                    late |-> IF @.count > 0 /\ (new_filled - t.filled_qty > 0 \/ ended)
                             THEN @.late + 1 ELSE @.late]]
        /\ tracked_orders' =
               IF ended
               THEN Untrack(tracked_orders, oid)
               ELSE [tracked_orders EXCEPT ![oid].filled_qty =
                        IF new_filled > @ THEN new_filled ELSE @]
        /\ UNCHANGED <<config, decision, now, queueVars, execVars, lossVars, is_running,
                       breakerVars, capitalVars, queue_running, otherVars>>

\* one iteration of the loop body, for some tracked order and some answer
PollOrder ==
    \E oid \in DOMAIN tracked_orders :
        \E report \in ExchangeReports(tracked_orders[oid]),
           avg_price \in ReportedPrices(oid) :
           _poll_order(oid, report, avg_price)

(***************************************************************************)
(* OrderQueue.enqueue called directly with an order (queue_order of the    *)
(* executor with arbitrary arguments)                                      *)
(***************************************************************************)
QueuePrices == {480, 470, 460, 450, 440}

\* prices are interchangeable for the queue: a call carries a key already
\* seen or the highest price not seen yet
UsedPrices == {k[3] : k \in Range(recent_order_keys)}
NextFreshPrice(o) ==
    \/ o.price \in UsedPrices
    \/ /\ o.price \notin UsedPrices
       /\ \A q \in QueuePrices : q > o.price => q \in UsedPrices

QueueOrderInputs ==
    {QueuedOrder(token_id("m1", "YES"), "BUY", price, 10, priority, "GTC", "m1", "YES") :
        price \in QueuePrices, priority \in {"NORMAL", "HIGH", "URGENT"}}

\* enqueue returns order.id, the id of the order it was called with
EnqueueOrder(o) ==
    /\ next_id <= MaxQueueOrders
    /\ Enqueue(next_id, o)
    /\ enqueue_returned' = [returned |-> next_id, key |-> _make_order_key(o),
                            duplicate |-> IsDuplicate(o)]
    /\ next_id' = next_id + 1
    /\ UNCHANGED <<task, processing_count, submits, engineVars, fillVars, lossVars, auxVars, execVars>>

\* OrderQueue.cancel_order on an order that is pending
CancelOrder(id) ==
    /\ id \in DOMAIN orders
    /\ orders[id].status = "pending"
    /\ orders' = [orders EXCEPT ![id].status = "cancelled"]
    /\ UNCHANGED <<urgent_queue, high_queue, normal_queue, recent_order_keys, task,
                   processing_count, next_id, enqueue_returned, submits,
                   engineVars, fillVars, lossVars, auxVars, execVars>>

(***************************************************************************)
(* OrderExecutor: pause, resume, can_trade, execute_opportunity            *)
(***************************************************************************)
Pause ==
    /\ exec_state = "ready"
    /\ exec_state' = "paused"
    /\ UNCHANGED <<trades_today, successful_trades, failed_trades, consecutive_failures,
                   last_trade_time, auto_resume_tasks, bilateral, last_exec,
                   engineVars, queueVars, fillVars, lossVars, auxVars>>

Resume ==
    /\ exec_state = "paused"
    /\ exec_state' = "ready"
    /\ consecutive_failures' = IF consecutive_failures >= max_consecutive_failures
                               THEN 0 ELSE consecutive_failures
    /\ UNCHANGED <<trades_today, successful_trades, failed_trades,
                   last_trade_time, auto_resume_tasks, bilateral, last_exec,
                   engineVars, queueVars, fillVars, lossVars, auxVars>>

\* _on_queue_order_failed: the queue reports an order as failed (its retries
\* were accepted again, the key having left the recent window)
OnQueueOrderFailed ==
    /\ failed_trades < MaxFailures
    /\ ExecutorHandleFailure
    /\ UNCHANGED <<trades_today, successful_trades, last_trade_time, bilateral,
                   last_exec, engineVars, queueVars, fillVars, lossVars, auxVars>>

\* _auto_resume, once its sleep of pause_duration is over
AutoResume ==
    /\ auto_resume_tasks > 0
    /\ auto_resume_tasks' = auto_resume_tasks - 1
    /\ consecutive_failures' = 0
    /\ exec_state' = IF exec_state = "paused" THEN "ready" ELSE exec_state
    /\ UNCHANGED <<trades_today, successful_trades, failed_trades, last_trade_time,
                   bilateral, last_exec, engineVars, queueVars, fillVars, lossVars, auxVars>>

\* can_trade, evaluated with the executor in state st; env carries what the
\* call reads outside the executor: the auto-trading switch, whether
\* min_time_between_trades has elapsed, and the order manager's counters
can_trade(st, env) ==
    /\ st = "ready"
    /\ env.auto_trading_enabled
    /\ (last_trade_time = -1 \/ env.interval_elapsed)
    /\ ~(env.open_positions >= max_open_positions)
    /\ ~(env.total_exposure + capital_per_trade > max_total_exposure)

\* what the exchange client may answer to place_order for one leg:
\*   "id"      a dict with the key "id": accepted
\*   "orderID" a dict with the key "orderID" and no "id": accepted
\*   "error"   a dict {"error": ..., "status": "FAILED"}: not accepted
\*   "raises"  an exception, collected by gather(return_exceptions=True)
LegOutcomes == {"id", "orderID", "error", "raises"}
Accepted(outcome) == outcome \in {"id", "orderID"}

\* _place_bilateral_orders: the record of one call
_place_bilateral_orders(oy, on) ==
    IF oy = "raises"
    THEN \* raise order_yes: both ids are still None in the except block
         [outcome_yes |-> oy, outcome_no |-> on, cancelled |-> {},
          success |-> FALSE, order_yes_id |-> FALSE, order_no_id |-> FALSE]
    ELSE IF on = "raises"
    THEN \* raise order_no: order_yes_id is set, order_no_id is None
         [outcome_yes |-> oy, outcome_no |-> on,
          cancelled |-> IF oy = "id" THEN {"YES"} ELSE {},
          success |-> FALSE, order_yes_id |-> (oy = "id"), order_no_id |-> FALSE]
    ELSE [outcome_yes |-> oy, outcome_no |-> on, cancelled |-> {},
          success |-> TRUE, order_yes_id |-> (oy = "id"), order_no_id |-> (on = "id")]

\* _place_bilateral_orders called on a started executor
PlaceBilateralOrders(oy, on) ==
    /\ bilateral' = _place_bilateral_orders(oy, on)
    /\ UNCHANGED <<exec_state, trades_today, successful_trades, failed_trades,
                   consecutive_failures, last_trade_time, auto_resume_tasks, last_exec,
                   engineVars, queueVars, fillVars, lossVars, auxVars>>

Opportunities ==
    [action : {"trade", "watch"}, price_yes : {480}, price_no : {490, 510}]
TradeEnvs ==
    [auto_trading_enabled : BOOLEAN, interval_elapsed : BOOLEAN,
     open_positions : {0, max_open_positions},
     total_exposure : {0, max_total_exposure}]

\* every condition of the call holds: executor ready, can_trade true,
\* action TRADE, price sum within the slippage check
Eligible(opp, env) ==
    /\ can_trade(exec_state, env)
    /\ opp.action = "trade"
    /\ ~(opp.price_yes + opp.price_no > max_pair_cost_slippage_check)

\* execute_opportunity: EXECUTING is set before can_trade is consulted, and
\* the finally block sets READY whatever the state was at the call
ExecuteOpportunity(opp, env, oy, on) ==
    LET ok == can_trade("executing", env)
        slippage == opp.price_yes + opp.price_no > max_pair_cost_slippage_check
        placed == ok /\ opp.action = "trade" /\ ~slippage
        result == _place_bilateral_orders(oy, on)
        failures == consecutive_failures + 1
    IN  /\ exec_state' = "ready"
        /\ last_exec' = [called |-> TRUE, eligible |-> Eligible(opp, env),
                         submitted |-> IF placed THEN Legs ELSE {},
                         success |-> placed /\ result.success]
        /\ IF ~placed
           THEN /\ failed_trades' = IF ok /\ opp.action = "trade" /\ slippage
                                    THEN failed_trades + 1 ELSE failed_trades
                /\ UNCHANGED <<trades_today, successful_trades, consecutive_failures,
                               last_trade_time, auto_resume_tasks, bilateral>>
           ELSE /\ bilateral' = result
                /\ trades_today' = trades_today + 1
                /\ last_trade_time' = now
                /\ IF result.success
                   THEN /\ successful_trades' = successful_trades + 1
                        /\ consecutive_failures' = 0
                        /\ UNCHANGED <<failed_trades, auto_resume_tasks>>
                   ELSE /\ failed_trades' = failed_trades + 1
                        /\ consecutive_failures' = failures
                        /\ auto_resume_tasks' =
                               IF failures >= max_consecutive_failures
                               THEN auto_resume_tasks + 1 ELSE auto_resume_tasks
                        /\ UNCHANGED successful_trades
        /\ UNCHANGED <<engineVars, queueVars, fillVars, lossVars, auxVars>>

(***************************************************************************)
(* DailyLossManager                                                        *)
(***************************************************************************)
EffectiveLimit(capital) ==
    Min(max_daily_loss_usd, (max_daily_loss_percent * capital) \div 100)
_get_effective_limit == EffectiveLimit(loss_capital)

\* current_loss for a realized and an unrealized PnL
current_loss(pnl, unrealized) ==
    IF pnl + unrealized < 0 THEN 0 - (pnl + unrealized) ELSE 0

\* _update_status: the tests are made in this order
\* the status for a loss and a limit; loss_ratio is 0 when the limit is not positive
StatusFor(pnl, unrealized, limit) ==
    LET loss == current_loss(pnl, unrealized)
    IN  IF limit > 0 /\ loss >= limit THEN "blocked"
        ELSE IF limit > 0 /\ loss * 100 >= warning_threshold_pct * limit THEN "warning"
        ELSE IF limit > 0 /\ loss * 100 >= reduction_threshold_pct * limit THEN "reduced"
        ELSE "normal"

_update_status(pnl, unrealized) == StatusFor(pnl, unrealized, _get_effective_limit)

\* DailyLossManager.can_trade
loss_can_trade == loss_status # "blocked"

TradePnls == {-60, 40}
UnrealizedPnls == {0, -50}

record_trade(pnl) ==
    /\ trades_count < MaxTrades
    /\ current_pnl' = current_pnl + pnl
    /\ trades_count' = trades_count + 1
    /\ loss_status' = _update_status(current_pnl + pnl, unrealized_pnl)
    /\ UNCHANGED <<unrealized_pnl, loss_capital, engineVars, queueVars, fillVars,
                   execVars, auxVars>>

update_unrealized_pnl(unrealized) ==
    /\ unrealized # unrealized_pnl
    /\ unrealized_pnl' = unrealized
    /\ loss_status' = _update_status(current_pnl, unrealized)
    /\ UNCHANGED <<current_pnl, trades_count, loss_capital, engineVars, queueVars,
                   fillVars, execVars, auxVars>>

\* _reset_loop at the reset hour: new statistics, status NORMAL
DailyReset ==
    /\ current_pnl' = 0
    /\ unrealized_pnl' = 0
    /\ trades_count' = 0
    /\ loss_status' = "normal"
    /\ UNCHANGED <<loss_capital, engineVars, queueVars, fillVars, execVars, auxVars>>

\* statistics the file may hold at a start: <<current_pnl, unrealized_pnl,
\* trades_count>>; <<0, 0, 0>> is also the result of a start on a new day
LoadedStats == {<<0, 0, 0>>, <<-60, 0, 1>>, <<-60, -50, 2>>}
\* the starting_balance argument: <<>> for None
StartingBalances == {<<>>, <<500>>, <<0>>}

\* start: _load_stats, the new-day test, the starting balance, _update_status
LossStart(loaded, starting_balance) ==
    /\ current_pnl' = loaded[1]
    /\ unrealized_pnl' = loaded[2]
    /\ trades_count' = loaded[3]
    /\ loss_capital' = IF starting_balance # <<>> THEN starting_balance[1]
                       ELSE loss_capital
    /\ loss_status' = StatusFor(loaded[1], loaded[2], EffectiveLimit(loss_capital'))
    /\ UNCHANGED <<engineVars, queueVars, fillVars, execVars, auxVars>>

(***************************************************************************)
(* GabagoolEngine.stop and GabagoolEngine.start                            *)
(***************************************************************************)
EngineStop ==
    /\ on_fill' = "none"
    /\ positions_file' = _save_positions(positions)
    /\ is_running' = FALSE
    /\ UNCHANGED <<engineVars, queueVars, fillVars, execVars, lossVars, breakerVars,
                   capitalVars, queue_running, book, book_obs, optimizer, limiter,
                   smart_ape_running>>

EngineStart ==
    /\ positions' = _load_positions(positions_file, positions)
    /\ is_running' = TRUE
    /\ on_fill' = "gabagool"
    /\ UNCHANGED <<config, decision, now, positions_file, queueVars, fillVars,
                   execVars, lossVars, breakerVars, capitalVars, queue_running,
                   book, book_obs, optimizer, limiter, smart_ape_running>>

\* SmartApeEngine.start and stop, on the executor the accumulation engine
\* uses; the positions of the Smart Ape engine are on other markets
SmartApeStart ==
    /\ smart_ape_running' = TRUE
    /\ on_fill' = "smart_ape"
    /\ UNCHANGED <<engineVars, queueVars, fillVars, execVars, lossVars, persistVars,
                   breakerVars, capitalVars, queue_running, book, book_obs, optimizer,
                   limiter>>

SmartApeStop ==
    /\ smart_ape_running' = FALSE
    /\ on_fill' = "none"
    /\ UNCHANGED <<engineVars, queueVars, fillVars, execVars, lossVars, persistVars,
                   breakerVars, capitalVars, queue_running, book, book_obs, optimizer,
                   limiter>>

(***************************************************************************)
(* CircuitBreaker (core/resilience.py)                                     *)
(***************************************************************************)
\* variant: an open breaker lets a call probe without waiting for the timeout
_check_state_untimed(b, t) ==
    IF b.state = "closed" THEN [breaker |-> b, allowed |-> TRUE]
    ELSE IF b.state = "open"
    THEN IF b.last_failure_time >= 0
         THEN [breaker |-> [b EXCEPT !.state = "half_open", !.half_open_calls = 0],
               allowed |-> TRUE]
         ELSE [breaker |-> b, allowed |-> FALSE]
    ELSE IF b.half_open_calls < half_open_max_calls
         THEN [breaker |-> [b EXCEPT !.half_open_calls = @ + 1], allowed |-> TRUE]
         ELSE [breaker |-> b, allowed |-> FALSE]

\* _check_state: the breaker after the check, and whether the call may pass
_check_state(b, t) ==
    IF b.state = "closed" THEN [breaker |-> b, allowed |-> TRUE]
    ELSE IF b.state = "open"
    THEN IF b.last_failure_time >= 0 /\ t - b.last_failure_time >= timeout_seconds
         THEN [breaker |-> [b EXCEPT !.state = "half_open", !.half_open_calls = 0],
               allowed |-> TRUE]
         ELSE [breaker |-> b, allowed |-> FALSE]
    ELSE IF b.half_open_calls < half_open_max_calls
         THEN [breaker |-> [b EXCEPT !.half_open_calls = @ + 1], allowed |-> TRUE]
         ELSE [breaker |-> b, allowed |-> FALSE]

_record_success(b) ==
    IF b.state = "half_open"
    THEN IF b.success_count + 1 >= success_threshold
         THEN [b EXCEPT !.state = "closed", !.failure_count = 0, !.success_count = 0]
         ELSE [b EXCEPT !.success_count = @ + 1]
    ELSE IF b.state = "closed" THEN [b EXCEPT !.failure_count = 0]
    ELSE b

\* variant: a failure during recovery keeps the successes counted so far
_record_failure_keep(b, t) ==
    LET c == [b EXCEPT !.failure_count = @ + 1, !.last_failure_time = t]
    IN  IF b.state = "half_open" THEN [c EXCEPT !.state = "open"]
        ELSE IF b.state = "closed" /\ c.failure_count >= failure_threshold
        THEN [c EXCEPT !.state = "open"]
        ELSE c

_record_failure(b, t) ==
    LET c == [b EXCEPT !.failure_count = @ + 1, !.last_failure_time = t]
    IN  IF b.state = "half_open" THEN [c EXCEPT !.state = "open", !.success_count = 0]
        ELSE IF b.state = "closed" /\ c.failure_count >= failure_threshold
        THEN [c EXCEPT !.state = "open"]
        ELSE c

\* the calls in flight after the breaker went from state s to state s2
Regroup(f, s, s2) ==
    IF s2 = "half_open" /\ s # "half_open" THEN [probe |-> 0, old |-> f.probe + f.old]
    ELSE IF s = "half_open" /\ s2 # "half_open" THEN [probe |-> 0, old |-> f.probe + f.old]
    ELSE f

\* the wrapper up to the invocation of the wrapped function
BreakerCall ==
    /\ breaker_obs.calls < MaxCalls
    /\ LET r == _check_state(breaker, breaker_now)
           g == Regroup(in_flight, breaker.state, r.breaker.state)
       IN  /\ breaker' = r.breaker
           /\ in_flight' = IF ~r.allowed THEN g
                           ELSE IF r.breaker.state = "half_open"
                           THEN [g EXCEPT !.probe = @ + 1]
                           ELSE [g EXCEPT !.old = @ + 1]
           /\ breaker_obs' = [breaker_obs EXCEPT
                                 !.calls = @ + 1,
                                 !.admitted = r.allowed,
                                 !.probe_successes =
                                     IF breaker.state # "half_open"
                                        /\ r.breaker.state = "half_open"
                                     THEN 0 ELSE @]
    /\ UNCHANGED <<breaker_now, engineVars, queueVars, fillVars, execVars, lossVars,
                   persistVars, capitalVars, queue_running, otherVars>>

\* the wrapped function of a call in flight returns (ok) or raises
BreakerResult(kind, ok) ==
    /\ in_flight[kind] > 0
    /\ LET b2 == IF ok THEN _record_success(breaker)
                 ELSE _record_failure(breaker, breaker_now)
           f == [in_flight EXCEPT ![kind] = @ - 1]
       IN  /\ breaker' = b2
           /\ in_flight' = Regroup(f, breaker.state, b2.state)
           /\ breaker_obs' = [breaker_obs EXCEPT
                                 !.opened_at =
                                     IF breaker.state # "open" /\ b2.state = "open"
                                     THEN breaker_now ELSE @,
                                 !.probe_successes =
                                     IF ok /\ breaker.state = "half_open"
                                     THEN @ + 1 ELSE @]
    /\ UNCHANGED <<breaker_now, engineVars, queueVars, fillVars, execVars, lossVars,
                   persistVars, capitalVars, queue_running, otherVars>>

\* the task of a call in flight is cancelled: CancelledError is no Exception,
\* the wrapper records neither a success nor a failure
BreakerCancelled(kind) ==
    /\ in_flight[kind] > 0
    /\ in_flight' = [in_flight EXCEPT ![kind] = @ - 1]
    /\ UNCHANGED <<breaker, breaker_now, breaker_obs, engineVars, queueVars, fillVars,
                   execVars, lossVars, persistVars, capitalVars, queue_running, otherVars>>

BreakerTick(d) ==
    /\ breaker_now + d <= MaxBreakerNow
    /\ breaker_now' = breaker_now + d
    /\ UNCHANGED <<breaker, in_flight, breaker_obs, engineVars, queueVars, fillVars,
                   execVars, lossVars, persistVars, capitalVars, queue_running, otherVars>>

(***************************************************************************)
(* PaperCapitalManager.allocate and release                                *)
(* (core/paper_trading/capital_manager.py)                                 *)
(***************************************************************************)
\* dict.get(k, 0.0), dict.pop(k, ...) and sum(dict.values())
GetOr0(dict, k) == IF k \in DOMAIN dict THEN dict[k] ELSE 0
Pop(dict, k) == [x \in DOMAIN dict \ {k} |-> dict[x]]
RECURSIVE SumOver(_, _)
SumOver(dict, keys) ==
    IF keys = {} THEN 0
    ELSE LET k == CHOOSE x \in keys : TRUE
         IN  dict[k] + SumOver(dict, keys \ {k})
SumValues(dict) == SumOver(dict, DOMAIN dict)

allocate(amount, market_id, strategy) ==
    /\ capital_ops < MaxCapitalOps
    /\ capital_ops' = capital_ops + 1
    /\ IF amount <= 0 \/ amount > pools[strategy].balance
       THEN UNCHANGED <<pools, legacy>>
       ELSE /\ pools' = [pools EXCEPT
                           ![strategy].balance = @ - amount,
                           ![strategy].allocated =
                               (market_id :> (GetOr0(@, market_id) + amount)) @@ @]
            /\ legacy' = [legacy EXCEPT
                            !.balance = pools'["gabagool"].balance
                                        + pools'["smart_ape"].balance,
                            !.allocated =
                                (market_id :> (GetOr0(@, market_id) + amount)) @@ @]
    /\ UNCHANGED <<engineVars, queueVars, fillVars, execVars, lossVars, persistVars,
                   breakerVars, queue_running, otherVars>>

release(market_id, pnl, fees, slippage, strategy) ==
    LET net_pnl == pnl - fees - slippage
        returned == GetOr0(pools[strategy].allocated, market_id) + net_pnl
    IN  /\ capital_ops < MaxCapitalOps
        /\ capital_ops' = capital_ops + 1
        /\ pools' = [pools EXCEPT
                        ![strategy].allocated = Pop(@, market_id),
                        ![strategy].balance = @ + returned,
                        ![strategy].realized_pnl = @ + net_pnl,
                        ![strategy].fees = @ + fees,
                        ![strategy].slippage = @ + slippage,
                        ![strategy].trades_count = @ + 1]
        /\ legacy' =
               [balance |-> pools'["gabagool"].balance + pools'["smart_ape"].balance,
                allocated |-> Pop(legacy.allocated, market_id),
                realized_pnl |-> pools'["gabagool"].realized_pnl
                                 + pools'["smart_ape"].realized_pnl,
                fees |-> pools'["gabagool"].fees + pools'["smart_ape"].fees,
                slippage |-> pools'["gabagool"].slippage + pools'["smart_ape"].slippage,
                trades_count |-> pools'["gabagool"].trades_count
                                 + pools'["smart_ape"].trades_count]
        /\ UNCHANGED <<engineVars, queueVars, fillVars, execVars, lossVars,
                       persistVars, breakerVars, queue_running, otherVars>>

(***************************************************************************)
(* Specifications                                                          *)
(***************************************************************************)
\* the engine with its order pipeline, the exchange accepting every order,
\* within the first kill_switch_minutes of the positions
Next ==
    \/ \E m \in Markets, prices \in SnapshotPrices, f \in FilterInputs :
          AnalyzeOpportunity(m, prices, f[1], f[2], f[3], f[4])
    \/ \E m \in Markets : BuyDecision(m)
    \/ \E m \in Markets : ReconcilePosition(m)
    \/ \E params \in OptimizerTargets : ApplyGabagoolParams(params)
    \/ ProcessLoopPop
    \/ \E id \in OrderIds : ProcessOrderStart(id)
    \/ \E id \in OrderIds : SubmitSucceeds(id)
    \/ PollOrder

Spec == Init /\ [][Next]_vars

\* the order queue alone, the exchange accepting or rejecting each submission
NextQueue ==
    \/ \E o \in QueueOrderInputs :
          next_id <= MaxOrders /\ NextFreshPrice(o) /\ EnqueueOrder(o)
    \/ ProcessLoopPop
    \/ \E id \in OrderIds : ProcessOrderStart(id)
    \/ \E id \in OrderIds : SubmitSucceeds(id)
    \/ \E id \in OrderIds : SubmitFails(id)
    \/ \E id \in OrderIds : RetryWake(id)
    \/ \E id \in OrderIds : CancelOrder(id)
    \/ QueueStop

SpecQueue == Init /\ [][NextQueue]_vars

\* the queue's processor under more orders than permits, all of one priority
NextSem ==
    \/ \E o \in QueueOrderInputs :
          o.priority = "NORMAL" /\ NextFreshPrice(o) /\ EnqueueOrder(o)
    \/ ProcessLoopPop
    \/ \E id \in OrderIds : ProcessOrderStart(id)
    \/ \E id \in OrderIds : SubmitSucceeds(id)
    \/ \E id \in OrderIds : SubmitFails(id)
    \/ \E id \in OrderIds : RetryWake(id)

SpecSem == Init /\ [][NextSem]_vars

\* filter inputs with neutral order-book imbalance and RSI
OracleInputs == {f \in FilterInputs : ~f[2] /\ ~f[3] /\ f[4] = "neutral"}

\* the engine and its pipeline with the clock running past the kill switch,
\* without maintenance and optimizer writes
NextAging ==
    \/ \E m \in Markets, prices \in SnapshotPrices, f \in OracleInputs :
          AnalyzeOpportunity(m, prices, f[1], f[2], f[3], f[4])
    \/ \E m \in Markets : BuyDecision(m)
    \/ \E d \in ClockSteps : AdvanceClock(d)
    \/ ProcessLoopPop
    \/ \E id \in OrderIds : ProcessOrderStart(id)
    \/ \E id \in OrderIds : SubmitSucceeds(id)
    \/ PollOrder

SpecAging == Init /\ [][NextAging]_vars

\* the executor's own entry points
NextExec ==
    \/ \E opp \in Opportunities, env \in TradeEnvs, oy \in LegOutcomes, on \in LegOutcomes :
          ExecuteOpportunity(opp, env, oy, on)
    \/ \E oy \in LegOutcomes, on \in LegOutcomes : PlaceBilateralOrders(oy, on)
    \/ Pause
    \/ Resume
    \/ OnQueueOrderFailed
    \/ AutoResume

SpecExec == Init /\ [][NextExec]_vars

\* the engine placing orders while the daily loss manager records trades
\* the engine stopped and started again between its operations; nothing
\* calls the engine while it is stopped
NextPersist ==
    \/ \E m \in Markets, prices \in {<<480, 490>>}, f \in OracleInputs :
          is_running /\ AnalyzeOpportunity(m, prices, f[1], f[2], f[3], f[4])
    \/ \E m \in Markets : is_running /\ BuyDecision(m)
    \/ is_running /\ ProcessLoopPop
    \/ \E id \in OrderIds : is_running /\ ProcessOrderStart(id)
    \/ \E id \in OrderIds : is_running /\ SubmitSucceeds(id)
    \/ is_running /\ PollOrder
    \/ is_running /\ EngineStop
    \/ ~is_running /\ EngineStart

SpecPersist == Init /\ [][NextPersist]_vars

\* calls through one circuit breaker, their results, and the passing of time
NextBreaker ==
    \/ BreakerCall
    \/ \E kind \in {"probe", "old"}, ok \in BOOLEAN : BreakerResult(kind, ok)
    \/ \E kind \in {"probe", "old"} : BreakerCancelled(kind)
    \/ \E d \in BreakerSteps : BreakerTick(d)

SpecBreaker == Init /\ [][NextBreaker]_vars

\* allocate and release calls on the capital manager, in any order
NextCapital ==
    \/ \E amount \in AllocAmounts, m \in CapitalMarkets, s \in Strategies :
          allocate(amount, m, s)
    \/ \E m \in CapitalMarkets, a \in ReleaseArgs, s \in Strategies :
          release(m, a[1], a[2], a[3], s)

SpecCapital == Init /\ [][NextCapital]_vars

NextLoss ==
    \/ \E loaded \in LoadedStats, balance \in StartingBalances :
          LossStart(loaded, balance)
    \/ \E pnl \in TradePnls : record_trade(pnl)
    \/ \E unrealized \in UnrealizedPnls : update_unrealized_pnl(unrealized)
    \/ DailyReset
    \/ \E m \in Markets, prices \in SnapshotPrices, f \in FilterInputs :
          AnalyzeOpportunity(m, prices, f[1], f[2], f[3], f[4])
    \/ \E m \in Markets : BuyDecision(m)

SpecLoss == Init /\ [][NextLoss]_vars

(***************************************************************************)
(* Properties                                                              *)
(***************************************************************************)
Locked(m) == m \in DOMAIN positions /\ positions[m].is_locked

\* the ids of a FIFO of the queue
Queued(id) ==
    id \in Range(urgent_queue) \cup Range(high_queue) \cup Range(normal_queue)

IsBuyFor(id, m, leg) ==
    /\ orders[id].side = "BUY"
    /\ orders[id].token_id = token_id(m, leg)

PendingQty(p, leg) == IF leg = "YES" THEN p.pending_qty_yes ELSE p.pending_qty_no

\* C1: in every state in which a position is locked, its pair_cost is below
\* the configured max_pair_cost and its hedged_qty is at least its total_cost.
C1_LockedIsProfitable ==
    \A m \in DOMAIN positions :
        positions[m].is_locked =>
            /\ Lt(pair_cost(positions[m]), <<config.max_pair_cost, 1>>)
            /\ hedged_qty(positions[m]) * 1000 >= total_cost(positions[m])

\* C2: no step takes a locked position that still exists to an unlocked one.
C2_LockedIsPermanent ==
    [][\A m \in Markets :
          (Locked(m) /\ m \in DOMAIN positions') => positions'[m].is_locked]_vars

\* a locked position whose lock condition no longer holds: the flag was kept
\* through a later fill or a later max_pair_cost
C2_Witness ==
    \E m \in DOMAIN positions :
        /\ positions[m].is_locked
        /\ ~LockCondition(positions[m], config.max_pair_cost)

\* C3: no step hands a new buy order for a market to the queue when the
\* market's position is locked before the step.
C3_NoBuyAfterLock ==
    [][\A m \in Markets :
          Locked(m) =>
              ~\E id \in DOMAIN orders' \ DOMAIN orders :
                   orders'[id].side = "BUY" /\ orders'[id].market_id = m]_vars

\* a buy order of leg for market m that is queued, being processed or tracked
BuyInFlight(m, leg) ==
    \E id \in DOMAIN orders :
        /\ IsBuyFor(id, m, leg)
        /\ Queued(id) \/ task[id] # "none" \/ id \in DOMAIN tracked_orders

\* C4: whenever no buy order of a leg is queued, being processed or tracked,
\* the pending quantity of that leg is zero.
C4_PendingReleased ==
    \A m \in DOMAIN positions : \A leg \in Legs :
        ~BuyInFlight(m, leg) => PendingQty(positions[m], leg) = 0

\* C5: the pending quantities of both legs are never negative.
C5_PendingNonNegative ==
    \A m \in DOMAIN positions :
        positions[m].pending_qty_yes >= 0 /\ positions[m].pending_qty_no >= 0

\* the NO leg holds filled shares although no NO buy was ever accepted: a fill
\* was booked on a leg whose pending quantity was smaller than the fill
C5_Witness ==
    \E m \in DOMAIN positions :
        /\ positions[m].qty_no > 0
        /\ positions[m].pending_qty_no = 0
        /\ ~\E id \in DOMAIN orders : IsBuyFor(id, m, "NO")

\* buy orders of a leg that are counted in pending and for which neither a
\* fill nor an order end has arrived
UnfilledBuys(m, leg) ==
    {id \in DOMAIN orders :
        /\ IsBuyFor(id, m, leg)
        /\ \/ orders[id].status \in {"pending", "processing"}
           \/ id \in DOMAIN tracked_orders /\ tracked_orders[id].filled_qty = 0}

\* C6: at most one buy order per leg is in flight: while one is, a further
\* snapshot does not bring a second buy order of the same leg.
C6_OneBuyInFlightPerLeg ==
    \A m \in Markets : \A leg \in Legs : Cardinality(UnfilledBuys(m, leg)) <= 1

\* C7: when a bilateral placement ends with exactly one leg accepted by the
\* exchange, cancel_order has been issued for that leg's order.
C7_SingleLegCancelled ==
    \A leg \in Legs :
        {l \in Legs : Accepted(IF l = "YES" THEN bilateral.outcome_yes
                               ELSE bilateral.outcome_no)} = {leg}
            => bilateral.cancelled = {leg}

\* C8: an execute_opportunity call made with the executor ready and every
\* trading condition satisfied submits both legs to the exchange client.
C8_EligibleSubmitsBoth ==
    (last_exec.called /\ last_exec.eligible) => last_exec.submitted = Legs

E1Config == [max_pair_cost |-> 975, min_improvement |-> 0]

\* a position with no fill and no pending order
Fresh(p) ==
    /\ p.qty_yes = 0 /\ p.qty_no = 0
    /\ p.pending_qty_yes = 0 /\ p.pending_qty_no = 0
    /\ ~p.is_locked

\* C9: with p_yes = 0.48, p_no = 0.49, max_pair_cost = 0.975, order size 25,
\* no oracle signal and no filter veto, the snapshot of a market whose
\* position has just been opened yields a buy decision.
C9_FirstBuyDecision ==
    \A m \in DOMAIN positions :
        (config = E1Config /\ Fresh(positions[m])) =>
            Decide(positions[m], 480, 490, order_size_usd, config,
                   "NEUTRAL", FALSE, FALSE, "neutral") \in {"buy_yes", "buy_no"}

\* an order that was submitted, never accepted, and that nothing will touch
\* again: not in a FIFO, no task
GivenUp(id) ==
    /\ submits[id] >= 1
    /\ orders[id].status # "completed"
    /\ ~Queued(id)
    /\ task[id] = "none"

\* C10: an order whose every submission failed does not stay pending: once
\* nothing is left to run for it, it has been submitted max_retries + 1
\* times and is failed.
C10_FailsAfterRetries ==
    \A id \in DOMAIN orders :
        GivenUp(id) => (submits[id] = max_retries + 1 /\ orders[id].status = "failed")

\* orders of the table that carry key k
OrdersWithKey(k) == {id \in DOMAIN orders : _make_order_key(orders[id]) = k}

\* C11: an enqueue call whose key is in the recent window returns the id of
\* the earlier order with that key, an id of the order table.
C11_DuplicateReturnsEarlierId ==
    enqueue_returned.duplicate =>
        enqueue_returned.returned \in OrdersWithKey(enqueue_returned.key)

TerminalStatus == {"completed", "failed", "cancelled"}

\* C12: an enqueue call whose key is that of earlier orders which have all
\* reached completed, failed or cancelled puts its order in the order table.
C12_ReissueAccepted ==
    [][(/\ next_id' = next_id + 1
        /\ OrdersWithKey(enqueue_returned'.key) # {}
        /\ \A id \in OrdersWithKey(enqueue_returned'.key) :
               orders[id].status \in TerminalStatus)
       => next_id \in DOMAIN orders']_vars

AllowedTransitions ==
    {<<"pending", "processing">>, <<"processing", "completed">>,
     <<"processing", "failed">>, <<"processing", "pending">>,
     <<"pending", "cancelled">>}

\* C13: every status change of an order is one of the five allowed ones, and
\* an order that is completed, failed or cancelled keeps its status and is
\* not submitted again.
C13_StatusTransitions ==
    [][\A id \in DOMAIN orders :
          /\ id \in DOMAIN orders'
          /\ orders'[id].status # orders[id].status =>
                 <<orders[id].status, orders'[id].status>> \in AllowedTransitions
          /\ orders[id].status \in TerminalStatus =>
                 /\ orders'[id].status = orders[id].status
                 /\ submits'[id] = submits[id]]_vars

\* an order cancelled after a failed submission waits in no FIFO while
\* another order has completed
C13_Witness ==
    /\ \E id \in DOMAIN orders : orders[id].status = "cancelled" /\ submits[id] >= 1
    /\ \E id \in DOMAIN orders : orders[id].status = "completed"

InSubmission == {id \in OrderIds : task[id] = "executing"}

\* C14: at most max_concurrent orders are inside a submission call.
C14_SemaphoreBound == Cardinality(InSubmission) <= max_concurrent

\* max_concurrent orders are inside a submission call and one more task waits
C14_Witness ==
    /\ Cardinality(InSubmission) = max_concurrent
    /\ \E id \in OrderIds : task[id] = "spawned" /\ orders[id].status = "pending"

Rank(priority) == IF priority = "URGENT" THEN 3 ELSE IF priority = "HIGH" THEN 2 ELSE 1

\* order b goes before order a: higher priority, or same priority and
\* enqueued earlier (ids are given in the order of the calls)
Precedes(b, a) ==
    \/ Rank(orders[b].priority) > Rank(orders[a].priority)
    \/ Rank(orders[b].priority) = Rank(orders[a].priority) /\ b < a

\* C15: when an order is submitted for the first time, no order that is
\* enqueued, not yet submitted and that goes before it is still waiting.
C15_PriorityOrder ==
    [][\A a \in DOMAIN orders :
          (submits[a] = 0 /\ submits'[a] = 1) =>
              ~\E b \in DOMAIN orders \ {a} :
                   /\ submits[b] = 0
                   /\ orders[b].status = "pending"
                   /\ Precedes(b, a)]_vars

\* C17: once the consecutive-failure counter has reached
\* max_consecutive_failures and the executor is paused, it leaves the paused
\* state only through resume() or the auto-resume, which both reset the
\* counter.
C17_PausedUntilResume ==
    [][(/\ exec_state = "paused"
        /\ consecutive_failures >= max_consecutive_failures
        /\ exec_state' # "paused")
       => consecutive_failures' = 0]_vars

\* C18: while the daily loss manager is blocked, no step hands a new buy
\* order to the order queue.
C18_NoBuyWhileBlocked ==
    [][~loss_can_trade =>
          ~\E id \in DOMAIN orders' \ DOMAIN orders : orders'[id].side = "BUY"]_vars

Removed(m) == m \in DOMAIN positions /\ m \notin DOMAIN positions'

\* a step of analyze_opportunity for m that is seen in the state: it changes
\* the decision or the position table and places no order
AnalysisStep(m) ==
    /\ next_id' = next_id
    /\ tracked_orders' = tracked_orders
    /\ decision'[m] # decision[m] \/ DOMAIN positions' # DOMAIN positions

\* C19: a position is removed only when it is not locked and strictly older
\* than kill_switch_minutes, the removing snapshot returns no buy decision,
\* and every analysis of such a position removes it; a position aged exactly
\* kill_switch_minutes or a locked position is never removed.
C19_KillSwitch ==
    [][\A m \in Markets :
          /\ Removed(m) =>
                /\ ~positions[m].is_locked
                /\ now - positions[m].created_at > kill_switch_minutes
                /\ decision'[m] = NoDecision
          /\ (/\ m \in DOMAIN positions
              /\ ~positions[m].is_locked
              /\ now - positions[m].created_at > kill_switch_minutes
              /\ AnalysisStep(m)) => Removed(m)]_vars

\* the kill switch has fired: orders were placed for a market of the engine
\* and its position is gone
C19_Witness ==
    \E m \in Markets :
        /\ m \notin DOMAIN positions
        /\ \E id \in DOMAIN orders : orders[id].market_id = m
        /\ now > kill_switch_minutes

HeldQty(p, leg) == IF leg = "YES" THEN p.qty_yes ELSE p.qty_no

\* C20: the step that removes a position holding shares hands to the queue a
\* market sell of the held quantity for each non-empty leg.
C20_LiquidatedAtMarket ==
    [][\A m \in Markets : \A leg \in Legs :
          (Removed(m) /\ HeldQty(positions[m], leg) > 0) =>
              \E id \in DOMAIN orders' \ DOMAIN orders :
                  /\ orders'[id].side = "SELL"
                  /\ orders'[id].order_type = "MARKET"
                  /\ orders'[id].token_id = token_id(m, leg)
                  /\ orders'[id].size = HeldQty(positions[m], leg)]_vars

\* a fill-manager step in which the tracked SELL order oid is reported
\* completely filled: the whole remaining quantity reaches the position
SellFilled(oid) ==
    /\ oid \in DOMAIN tracked_orders
    /\ oid \notin DOMAIN tracked_orders'
    /\ orders[oid].side = "SELL"
    /\ orders[oid].market_id \in DOMAIN positions
    /\ orders[oid].market_id \in DOMAIN positions'
    /\ LET p == positions[orders[oid].market_id]
           q == positions'[orders[oid].market_id]
           t == tracked_orders[oid]
       IN  Abs((q.qty_yes + q.qty_no) - (p.qty_yes + p.qty_no))
               = t.initial_qty - t.filled_qty

Imbalance(p) == Abs(p.qty_yes - p.qty_no)

\* C21: once the market sell of a reconciliation is completely filled, the
\* position's recorded |qty_yes - qty_no| is at most the tolerance of 2 shares.
C21_ReconcileBalances ==
    [][\A oid \in DOMAIN tracked_orders :
          SellFilled(oid) =>
              Imbalance(positions'[orders[oid].market_id]) <= reconcile_threshold]_vars

\* C22: a start that follows a stop leaves the engine with the positions it
\* had at the stop, each with equal quantities, costs, pending fields, locked
\* flag and creation time.
C22_SaveLoadRoundTrip ==
    [][(~is_running /\ is_running') => positions' = positions]_vars

\* a step that is a call through the breaker
CallStep == breaker_obs'.calls = breaker_obs.calls + 1
\* a step that records a failure
FailureStep == breaker'.failure_count = breaker.failure_count + 1
SinceOpened == breaker_now - breaker_obs.opened_at

\* C23: a call made while the breaker is open and fewer than timeout_seconds
\* after it opened is rejected, and the wrapped function is not invoked.
C23_OpenRejects ==
    [][(CallStep /\ breaker.state = "open" /\ SinceOpened < timeout_seconds)
          => (~breaker_obs'.admitted /\ in_flight' = in_flight
              /\ breaker'.state = "open")]_vars

\* a call was rejected by the open breaker some seconds after it opened
C23_Witness ==
    /\ breaker.state = "open"
    /\ breaker_obs.calls > failure_threshold
    /\ ~breaker_obs.admitted
    /\ SinceOpened > 0
    /\ SinceOpened < timeout_seconds
    /\ in_flight.old > 0

\* C24: a call that finds the breaker open timeout_seconds or more after it
\* opened is admitted and observes half_open, whatever results were reported
\* since the breaker opened.
C24_AdmittedAfterTimeout ==
    [][(CallStep /\ breaker.state = "open" /\ SinceOpened >= timeout_seconds)
          => (breaker_obs'.admitted /\ breaker'.state = "half_open")]_vars

\* C25: while the breaker is half_open, the calls in flight admitted in this
\* half_open period, the one that opened the period included, are at most
\* half_open_max_calls.
C25_HalfOpenProbes ==
    breaker.state = "half_open" => in_flight.probe <= half_open_max_calls

\* C26: the breaker leaves half_open for closed exactly at the success that
\* brings the successes recorded since it became half_open to
\* success_threshold; with fewer it stays half_open; a failure recorded in
\* half_open opens it.
C26_HalfOpenRecovery ==
    [][breaker.state = "half_open" =>
          /\ breaker'.state = "closed"
                => breaker_obs'.probe_successes = success_threshold
          /\ breaker'.state = "half_open"
                => breaker_obs'.probe_successes < success_threshold
          /\ FailureStep => breaker'.state = "open"]_vars

\* the breaker has closed again by success_threshold probe successes after an
\* opening that was not at the start of the clock
C26_Witness ==
    /\ breaker.state = "closed"
    /\ breaker_obs.probe_successes = success_threshold
    /\ breaker_obs.opened_at >= timeout_seconds

\* C27: the global balance is the sum of the two strategy balances and the
\* global allocated total is the sum of the allocations of the two strategies.
C27_GlobalMatchesPools ==
    /\ legacy.balance = pools["gabagool"].balance + pools["smart_ape"].balance
    /\ SumValues(legacy.allocated) = SumValues(pools["gabagool"].allocated)
                                     + SumValues(pools["smart_ape"].allocated)

\* C28: the available balance of each strategy is never negative.
C28_PoolsNonNegative ==
    \A s \in Strategies : pools[s].balance >= 0

\* C29: can_trade is false exactly when the current loss has reached the
\* effective limit.
C29_BlockedIffLimitReached ==
    ~loss_can_trade <=>
        current_loss(current_pnl, unrealized_pnl) >= _get_effective_limit

\* C30: once the queue is stopped, no order goes from pending to processing,
\* that is, no order that had not started processing is submitted.
C30_NoSubmissionAfterStop ==
    [][~queue_running =>
          \A id \in DOMAIN orders :
              ~(orders[id].status = "pending" /\ orders'[id].status = "processing")]_vars

(***************************************************************************)
(* LocalOrderbook: one token's book, built with max_levels = MaxLevels.    *)
(* A ladder is a function price -> size; a snapshot or a delta carries     *)
(* lists of <<price, size>>; None and the empty list are both <<>>, the    *)
(* code tests them with `if bids:`.                                        *)
(***************************************************************************)
max_levels == MaxLevels
BookPrices == {480, 490, 500, 510}
BookSizes == {0, 5}
ListsUpTo(n) == UNION {[1..k -> BookPrices \X BookSizes] : k \in 0..n}
\* the lists of one call: one side holds several entries, the other side at
\* most one; a snapshot lists a price once, a delta may repeat it
SnapshotInputs ==
    LET Lists(n) == {l \in ListsUpTo(n) :
                        \A i, j \in 1..Len(l) : l[i][1] = l[j][1] => i = j}
    IN  (Lists(max_levels + 1) \X Lists(1)) \cup (Lists(1) \X Lists(max_levels + 1))
DeltaInputs ==
    (ListsUpTo(2) \X ListsUpTo(1)) \cup (ListsUpTo(1) \X ListsUpTo(2))

\* the loop `for price, size in entries` of apply_snapshot (popping = FALSE:
\* an entry of size <= 0 is skipped) and of apply_delta (popping = TRUE: it
\* removes the level)
RECURSIVE SetLevels_adding(_, _, _)
SetLevels_adding(ladder, entries, popping) ==
    IF entries = <<>> THEN ladder
    ELSE LET price == Head(entries)[1]
             size == Head(entries)[2]
             next == IF size > 0
                     THEN [p \in DOMAIN ladder \cup {price} |->
                              IF p = price
                              THEN size + (IF p \in DOMAIN ladder THEN ladder[p] ELSE 0)
                              ELSE ladder[p]]
                     ELSE IF popping
                          THEN [p \in DOMAIN ladder \ {price} |-> ladder[p]]
                          ELSE ladder
         IN  SetLevels_adding(next, Tail(entries), popping)
RECURSIVE SetLevels(_, _, _)
SetLevels(ladder, entries, popping) ==
    IF entries = <<>> THEN ladder
    ELSE LET price == Head(entries)[1]
             size == Head(entries)[2]
             next == IF size > 0
                     THEN [p \in DOMAIN ladder \cup {price} |->
                              IF p = price THEN size ELSE ladder[p]]
                     ELSE IF popping
                          THEN [p \in DOMAIN ladder \ {price} |-> ladder[p]]
                          ELSE ladder
         IN  SetLevels(next, Tail(entries), popping)

best_bid(b) == CHOOSE p \in DOMAIN b.bids : \A q \in DOMAIN b.bids : q <= p
best_ask(b) == CHOOSE p \in DOMAIN b.asks : \A q \in DOMAIN b.asks : p <= q

\* LocalOrderbook._trim_levels: the worst levels beyond max_levels are
\* dropped, the lowest bids and the highest asks
_trim_levels_none(b) == b
_trim_levels(b) ==
    LET keep_bids == {p \in DOMAIN b.bids :
                        Cardinality({q \in DOMAIN b.bids : q > p}) < max_levels}
        keep_asks == {p \in DOMAIN b.asks :
                        Cardinality({q \in DOMAIN b.asks : q < p}) < max_levels}
    IN  [bids |-> [p \in keep_bids |-> b.bids[p]],
         asks |-> [p \in keep_asks |-> b.asks[p]]]

\* what apply_snapshot and apply_delta leave in the ladders
Snapshot(bids, asks) ==
    [bids |-> SetLevels(<<>>, SubSeq(bids, 1, Min(Len(bids), max_levels)), FALSE),
     asks |-> SetLevels(<<>>, SubSeq(asks, 1, Min(Len(asks), max_levels)), FALSE)]
Delta(b, bids, asks) ==
    _trim_levels([bids |-> SetLevels(b.bids, bids, TRUE),
                  asks |-> SetLevels(b.asks, asks, TRUE)])

apply_snapshot(bids, asks) ==
    /\ book' = Snapshot(bids, asks)
    /\ book_obs' = "apply_snapshot"
    /\ UNCHANGED <<optimizer, limiter, callbackVars>>
    /\ UNCHANGED <<engineVars, queueVars, fillVars, execVars, lossVars, persistVars,
                   breakerVars, capitalVars, queue_running>>

apply_delta(bids, asks) ==
    /\ book' = Delta(book, bids, asks)
    /\ book_obs' = "apply_delta"
    /\ UNCHANGED <<optimizer, limiter, callbackVars>>
    /\ UNCHANGED <<engineVars, queueVars, fillVars, execVars, lossVars, persistVars,
                   breakerVars, capitalVars, queue_running>>

\* snapshots and deltas applied to one book, in any order
NextBook ==
    \/ \E x \in SnapshotInputs : apply_snapshot(x[1], x[2])
    \/ \E x \in DeltaInputs : apply_delta(x[1], x[2])

SpecBook == Init /\ [][NextBook]_vars

\* C31: after any apply_snapshot that leaves both sides of the book
\* non-empty, the best bid is below the best ask.
C31_SnapshotUncrossed ==
    (book_obs = "apply_snapshot" /\ book.bids # <<>> /\ book.asks # <<>>)
        => best_bid(book) < best_ask(book)

\* C32: after any sequence of apply_snapshot and apply_delta calls each side
\* of the book holds at most max_levels price levels.
C32_LevelsBounded ==
    /\ Cardinality(DOMAIN book.bids) <= max_levels
    /\ Cardinality(DOMAIN book.asks) <= max_levels
\* a delta met a full side and a level was trimmed
C32_Witness ==
    /\ book_obs = "apply_delta"
    /\ Cardinality(DOMAIN book.bids) = max_levels
    /\ \E x \in DeltaInputs :
          Cardinality(DOMAIN SetLevels(book.bids, x[1], TRUE)) > max_levels

\* C33: in any state of the book, applying a delta twice in a row leaves
\* both ladders as applying it once does, trimming included.
C33_DeltaIdempotent ==
    \A x \in DeltaInputs :
        Delta(Delta(book, x[1], x[2]), x[1], x[2]) = Delta(book, x[1], x[2])
\* a full side for which some delta changes the book and has a level trimmed
C33_Witness ==
    /\ book_obs = "apply_delta"
    /\ Cardinality(DOMAIN book.asks) = max_levels
    /\ \E x \in DeltaInputs :
          /\ Cardinality(DOMAIN SetLevels(book.asks, x[2], TRUE)) > max_levels
          /\ Delta(book, x[1], x[2]) # book

C35_BuyIsCostCandidate ==
    [][\A m \in Markets :
          (decision'[m] # decision[m] /\ decision'[m].action \in {"buy_yes", "buy_no"}) =>
              LET p == positions'[m]
                  d == decision'[m]
              IN  CostCandidate(p,
                                IF d.action = "buy_yes"
                                THEN potential_pair_cost_if_buy_yes(p, d.price, d.size_usd)
                                ELSE potential_pair_cost_if_buy_no(p, d.price, d.size_usd),
                                config)]_vars

(***************************************************************************)
(* AutoOptimizer: one iteration of the optimization loop collects the      *)
(* market conditions and computes the parameters of the accumulation       *)
(* engine from them. Prices, spreads and improvements are in thousandths.  *)
(***************************************************************************)
\* what _collect_conditions may return
ConditionInputs ==
    [avg_spread : {30, 70, 110, 130, 160},
     volatility_score : {20, 50, 80},
     gabagool_active_positions : {0, 1, 2},
     gabagool_avg_pair_cost : {930, 940, 950, 960, 970, 980, 990, 1000}]

\* min_improvement according to the state of the positions (lines 460-469)
params_min_improvement_rising(c) ==
    IF c.gabagool_active_positions = 0 THEN 0
    ELSE IF c.gabagool_avg_pair_cost > 980 THEN 8
    ELSE IF c.gabagool_avg_pair_cost > 960 THEN 5
    ELSE IF c.gabagool_avg_pair_cost > 940 THEN 2
    ELSE 1
params_min_improvement(c) ==
    IF c.gabagool_active_positions = 0 THEN 0
    ELSE IF c.gabagool_avg_pair_cost > 980 THEN 1
    ELSE IF c.gabagool_avg_pair_cost > 960 THEN 2
    ELSE IF c.gabagool_avg_pair_cost > 940 THEN 5
    ELSE 8

_optimize_gabagool_params(c) ==
    LET mpc0 == IF c.avg_spread > 150 THEN 965
                ELSE IF c.avg_spread > 100 THEN 970
                ELSE IF c.avg_spread < 50 THEN 980 ELSE 975
        base_mpc == IF c.volatility_score > 70 THEN mpc0 - 5
                    ELSE IF c.volatility_score < 30 THEN mpc0 + 5 ELSE mpc0
        fbt0 == IF c.avg_spread > 120 THEN 500
                ELSE IF c.avg_spread < 60 THEN 600 ELSE 550
        base_fbt == IF c.volatility_score > 70 THEN fbt0 - 50
                    ELSE IF c.volatility_score < 30 THEN fbt0 + 50 ELSE fbt0
    IN  [max_pair_cost |-> Max(950, Min(985, base_mpc)),
         min_improvement |-> params_min_improvement(c),
         first_buy_threshold |-> Max(450, Min(650, base_fbt))]

\* the loop body: self._conditions = await self._collect_conditions(), then
\* self._gabagool_params = self._optimize_gabagool_params(self._conditions)
OptimizationIteration(c) ==
    /\ optimizer' = [conditions |-> c, params |-> _optimize_gabagool_params(c)]
    /\ UNCHANGED <<engineVars, queueVars, fillVars, execVars, lossVars, persistVars,
                   breakerVars, capitalVars, queue_running, book, book_obs, limiter, callbackVars>>

NextOptimizer == \E c \in ConditionInputs : OptimizationIteration(c)

SpecOptimizer == Init /\ [][NextOptimizer]_vars

\* conditions with active positions and an average pair cost at least that
\* of the conditions the current parameters were computed from
HigherPairCost ==
    {c \in ConditionInputs :
        /\ c.gabagool_active_positions > 0
        /\ c.gabagool_avg_pair_cost >= optimizer.conditions.gabagool_avg_pair_cost}

\* C36, as the code has it: with at least one active position, the
\* min_improvement target computed by the optimizer is non-increasing in the
\* average pair cost of the engine (the higher the pair cost, the smaller
\* the improvement asked for).
C36_MinImprovementNonIncreasing ==
    optimizer.conditions.gabagool_active_positions > 0 =>
        \A c \in HigherPairCost :
            _optimize_gabagool_params(c).min_improvement <= optimizer.params.min_improvement
\* parameters computed for a low pair cost, with a strictly smaller target
\* for some higher pair cost
C36_Witness ==
    /\ optimizer.conditions.gabagool_active_positions > 0
    /\ optimizer.params.min_improvement = 8
    /\ \E c \in HigherPairCost : _optimize_gabagool_params(c).min_improvement = 1

\* C36: with at least one active position, the min_improvement target
\* computed by the optimizer is non-decreasing in the average pair cost of
\* the engine.
C36_MinImprovementNonDecreasing ==
    optimizer.conditions.gabagool_active_positions > 0 =>
        \A c \in HigherPairCost :
            _optimize_gabagool_params(c).min_improvement >= optimizer.params.min_improvement

(***************************************************************************)
(* AdaptiveRateLimiter. Tokens are counted in hundredths, rates in tenths  *)
(* of a token per second, time in tenths of a second, so that elapsed *    *)
(* rate is a number of hundredths. acquire holds the lock from its refill  *)
(* to its return; on_rate_limited and on_success take no lock.             *)
(***************************************************************************)
AcquireSizes == {1, max_tokens}         \* tokens asked, at most the capacity
Elapsed == {0, 1, 20}                   \* time since _last_update at a call
Capacity == max_tokens * 100

\* min(self.max_tokens, self._tokens + seconds * self.tokens_per_second)
Refill(tokens, added) == Min(Capacity, tokens + added)

\* acquire up to its return or up to `await asyncio.sleep(wait_time)`
AcquireStart(n, elapsed) ==
    LET tokens == Refill(limiter.tokens, elapsed * limiter.rate)
        asked == n * 100
    IN  /\ limiter.sleeping = <<>>
        /\ limiter.acquires < MaxAcquires
        /\ limiter' = IF tokens < asked
                      THEN [limiter EXCEPT !.tokens = tokens,
                                           !.sleeping = <<asked, asked - tokens, limiter.rate>>,
                                           !.acquires = @ + 1]
                      ELSE [limiter EXCEPT !.tokens = tokens - asked,
                                           !.acquires = @ + 1]
        /\ UNCHANGED <<engineVars, queueVars, fillVars, execVars, lossVars, persistVars,
                       breakerVars, capitalVars, queue_running, book, book_obs, optimizer, callbackVars>>

\* acquire after the sleep: wait_time = deficit / rate at the call, and the
\* bucket gains wait_time * tokens_per_second at the rate of the moment
AcquireWake ==
    /\ limiter.sleeping # <<>>
    /\ LET asked == limiter.sleeping[1]
           deficit == limiter.sleeping[2]
           rate_then == limiter.sleeping[3]
       IN  limiter' = [limiter EXCEPT
               !.tokens = Refill(@, (deficit * limiter.rate) \div rate_then) - asked,
               !.sleeping = <<>>]
    /\ UNCHANGED <<engineVars, queueVars, fillVars, execVars, lossVars, persistVars,
                   breakerVars, capitalVars, queue_running, book, book_obs, optimizer, callbackVars>>

\* backoff_factor = 0.5
on_rate_limited ==
    /\ limiter' = [limiter EXCEPT !.rate = Max(min_rate, @ \div 2),
                                  !.consecutive_successes = 0]
    /\ UNCHANGED <<engineVars, queueVars, fillVars, execVars, lossVars, persistVars,
                   breakerVars, capitalVars, queue_running, book, book_obs, optimizer, callbackVars>>

\* recovery_factor = 1.1
on_success ==
    /\ limiter.successes < MaxSuccesses
    /\ limiter' = IF limiter.consecutive_successes + 1 >= recovery_threshold
                  THEN [limiter EXCEPT !.rate = Min(max_rate, (@ * 11) \div 10),
                                       !.consecutive_successes = 0,
                                       !.successes = @ + 1]
                  ELSE [limiter EXCEPT !.consecutive_successes = @ + 1,
                                       !.successes = @ + 1]
    /\ UNCHANGED <<engineVars, queueVars, fillVars, execVars, lossVars, persistVars,
                   breakerVars, capitalVars, queue_running, book, book_obs, optimizer, callbackVars>>

\* acquire calls of any number of tasks, and the rate changes
NextLimiter ==
    \/ \E n \in AcquireSizes, elapsed \in Elapsed : AcquireStart(n, elapsed)
    \/ AcquireWake
    \/ on_rate_limited
    \/ on_success

SpecLimiter == Init /\ [][NextLimiter]_vars

\* C37: for requests of at most the capacity, whenever acquire returns the
\* token count of the bucket is within [0, capacity], under any interleaving
\* of acquire calls with on_rate_limited and on_success.
C37_TokensWithinCapacity ==
    limiter.sleeping = <<>> => (0 <= limiter.tokens /\ limiter.tokens <= Capacity)

\* the accumulation engine placing orders and the fill manager polling them,
\* while either engine is stopped and started on the shared executor; the
\* fill manager belongs to the executor and polls whatever the engines do
NextEngines ==
    \/ \E m \in Markets, prices \in {<<480, 490>>}, f \in OracleInputs :
          is_running /\ AnalyzeOpportunity(m, prices, f[1], f[2], f[3], f[4])
    \/ \E m \in Markets : is_running /\ BuyDecision(m)
    \/ ProcessLoopPop
    \/ \E id \in OrderIds : ProcessOrderStart(id)
    \/ \E id \in OrderIds : SubmitSucceeds(id)
    \/ PollOrder
    \/ is_running /\ EngineStop
    \/ ~is_running /\ EngineStart
    \/ ~smart_ape_running /\ SmartApeStart
    \/ smart_ape_running /\ SmartApeStop

SpecEngines == Init /\ [][NextEngines]_vars

\* C39: with both engines started on the same executor, the fill of an
\* order of the accumulation engine is still delivered to the accumulation
\* engine: while that engine is running, a fill the fill manager observes for
\* an order of one of its positions reaches the position, whether the Smart
\* Ape engine has been started or stopped.
C39_FillsReachAccumulationEngine ==
    [][\A oid \in DOMAIN tracked_orders \cap DOMAIN tracked_orders' :
          LET m == tracked_orders[oid].market_id
              delta_fill == tracked_orders'[oid].filled_qty - tracked_orders[oid].filled_qty
          IN  (is_running /\ is_running' /\ m \in DOMAIN positions /\ delta_fill > 0)
              => positions'[m].qty_yes + positions'[m].qty_no
                     = positions[m].qty_yes + positions[m].qty_no + delta_fill]_vars

\* a fill-manager step for the tracked order oid: a fill is recorded for it or
\* it stops being tracked
Polled(oid) ==
    /\ oid \in DOMAIN tracked_orders
    /\ oid \notin DOMAIN tracked_orders' \/ tracked_orders'[oid] # tracked_orders[oid]

\* C38: a fill or order-end callback for an order placed for a position that
\* the kill switch removed never changes a new position created afterwards
\* for the same market. A position that holds nothing and has nothing
\* pending has had no order placed for it that is still tracked, so every
\* tracked order of its market was placed for a removed position.
C38_StaleCallbacksIgnored ==
    [][\A oid \in DOMAIN tracked_orders :
          LET m == tracked_orders[oid].market_id
          IN  (/\ Polled(oid)
               /\ m \in DOMAIN positions
               /\ positions[m] = NewPosition(positions[m].created_at))
              => positions'[m] = positions[m]]_vars

\* C40: the breaker does not stay in half_open rejecting every call: once
\* the calls admitted in half_open have finished (returned, raised or been
\* cancelled) and no other call is in flight, either the state has left
\* half_open or a further call is admitted.
C40_HalfOpenNotStuck ==
    (breaker.state = "half_open" /\ in_flight.probe = 0 /\ in_flight.old = 0)
        => _check_state(breaker, breaker_now).allowed

====
